---- MODULE Spec2Model ----
(***************************************************************************)
(* Adjoint-differentiation engine of pennylane-lightning-gpu               *)
(* (algorithms/AdjointDiffGPU.hpp): the reverse sweep adjointJacobian, the *)
(* multi-GPU batcher batchAdjointJacobian and the observable classes.      *)
(*                                                                         *)
(* State vectors are symbolic: a base ("ref", "zero", "none") and the      *)
(* history of the kernels applied to it, so that two state copies are      *)
(* equal exactly when the same kernels were applied in the same order.     *)
(* A Jacobian entry is the symbolic value -2 * c * Im<bra|ket>.            *)
(* Indices are 0-based as in the C++ code; TLA+ sequences are 1-based, so  *)
(* element i of a vector v is v[i + 1].                                    *)
(***************************************************************************)
EXTENDS Integers, Sequences, FiniteSets, TLC

VARIABLES
    call,   \* arguments of the current adjointJacobian call
    adj,    \* locals of adjointJacobian (cursor, counters, state copies, jac)
    fan,    \* locals of the current per-observable fan-out and its threads
    bin,    \* arguments of the current batchAdjointJacobian call
    orch,   \* the orchestrator thread of batchAdjointJacobian
    wk,     \* the shard worker threads (adj_lambda), one per chunk
    dp,     \* the device pool: identifiers of the free devices
    tpo,    \* the last TensorProdObsGPU constructor call and its outcome
    ham,    \* the last HamiltonianGPU constructor call and its outcome
    cmp,    \* two observables and what operator== / getObsName return for them
    hap,    \* locals of the current HamiltonianGPU::applyInPlace call
    eng,    \* the members of the AdjointJacobianGPU object
    prev,   \* what the previous adjointJacobian call on the object left
    gc,     \* a GateCache object and the last call made on it
    devs    \* the devices of the state copies of the current sweep

sweepVars == <<call, adj, fan>>
batchVars == <<bin, orch, wk, dp>>
obsVars == <<tpo, ham, cmp, hap>>
engVars == <<eng, prev, gc, devs>>
vars ==
    <<call, adj, fan, bin, orch, wk, dp, tpo, ham, cmp, hap, eng, prev, gc,
      devs>>

----------------------------------------------------------------------------
(* Bounds of the model.                                                    *)

\* Longest tape (number of operations) given to the single-device sweep.
MaxOps == 3
\* Largest number of observables.
MaxObs == 2
\* Largest number of devices the pool reports.
MaxDevices == 2
\* Width in bits of the model's size_t (std::size_t is 64 bits wide; the
\* model keeps the wrap-around with a narrower word).
SizeBits == 12
\* Largest wire label of the observables.
MaxWire == 2
\* Largest number of members of a tensor product.
MaxMembers == 2
\* Largest number of threads of an OpenMP team.
MaxThreads == 2

----------------------------------------------------------------------------
(* size_t arithmetic.                                                      *)

SizeModulus == 2 ^ SizeBits

\* Unsigned arithmetic wraps modulo 2^w.
Wrap(x) == x % SizeModulus

----------------------------------------------------------------------------
(* The operations tape (OpsData) and the generator registry.               *)

\* An operation: its name, the number of numeric parameters it carries and
\* its inverse flag.
Op(n, p, inv) == [name |-> n, params |-> p, inverse |-> inv]

\* The operations tapes are built from.
OpKinds ==
    { Op("RX", 1, FALSE), Op("RX", 1, TRUE), Op("PhaseShift", 1, FALSE),
      Op("CNOT", 0, FALSE), Op("Rot", 3, FALSE), Op("U1", 1, FALSE),
      Op("BasisState", 1, FALSE), Op("QubitStateVector", 2, FALSE) }

RECURSIVE SeqsUpTo(_, _)
SeqsUpTo(S, n) ==
    IF n = 0 THEN {<<>>}
    ELSE LET shorter == SeqsUpTo(S, n - 1)
         IN shorter \cup {Append(s, x) : s \in {t \in shorter : Len(t) = n - 1}, x \in S}

\* Strictly ascending sequences over 0 .. n-1, as sequences.
RECURSIVE AscendingFrom(_, _)
AscendingFrom(lo, n) ==
    IF lo >= n THEN {<<>>}
    ELSE AscendingFrom(lo + 1, n)
         \cup {<<lo>> \o s : s \in AscendingFrom(lo + 1, n)}

\* OpsData::getNumParOps: the number of operations with a non-empty
\* parameter list.
getNumParOps(ops) == Cardinality({i \in 1..Len(ops) : ops[i].params > 0})

\* OpsData::hasParams(op_idx).
hasParams(ops, op_idx) == ops[op_idx + 1].params > 0

\* Names with an entry in generator_map.
generator_names ==
    { "RX", "RY", "RZ", "IsingXX", "IsingYY", "IsingZZ", "CRX", "CRY", "CRZ",
      "PhaseShift", "ControlledPhaseShift", "SingleExcitation",
      "SingleExcitationMinus", "SingleExcitationPlus", "DoubleExcitation",
      "DoubleExcitationMinus", "DoubleExcitationPlus", "MultiRZ" }

\* scaling_factors, in units of one half (-1 is -0.5, 2 is 1).
scaling_factors(name) ==
    IF name \in {"PhaseShift", "ControlledPhaseShift"} THEN 2 ELSE -1

\* Mutant: the walk skips QubitStateVector only.
IsQubitStateVector(name) == name = "QubitStateVector"

\* The state-preparation operations the reverse walk skips.
IsStatePrep(name) == name = "QubitStateVector" \/ name = "BasisState"

\* The members of a default-constructed AdjointJacobianGPU: the key sets of
\* generator_map and scaling_factors.
Engine == [generator_map |-> generator_names, scaling_factors |-> generator_names]

\* Mutant: a lookup that finds an entry for every name.
GeneratorAtAnyName(map, name) == TRUE

\* generator_map.at(op_name): TRUE when the map holds the key; when it does
\* not, at() throws std::out_of_range.
GeneratorAt(map, name) == name \in map

----------------------------------------------------------------------------
(* Symbolic state vectors.                                                 *)

NoState == [base |-> "none", hist |-> <<>>]
ZeroState == [base |-> "zero", hist |-> <<>>]
RefState == [base |-> "ref", hist |-> <<>>]

\* state.applyOperation(name, wires, inverse, params) for tape position k.
applyOp(sv, k, inv) ==
    [sv EXCEPT !.hist = Append(@, [kind |-> "op", idx |-> k, flag |-> inv])]

\* Mutant: the operation applied again with its own inverse flag.
applyOperationAgain(sv, ops, op_idx) ==
    applyOp(sv, op_idx, ops[op_idx + 1].inverse)

\* applyOperationAdj: operation op_idx with its inverse flag negated.
applyOperationAdj(sv, ops, op_idx) ==
    applyOp(sv, op_idx, ~ops[op_idx + 1].inverse)

\* applyOperations: the whole tape, forward, each inverse flag xor adj.
RECURSIVE applyOperationsFrom(_, _, _, _)
applyOperationsFrom(sv, ops, k, adjFlag) ==
    IF k >= Len(ops) THEN sv
    ELSE applyOperationsFrom(applyOp(sv, k, ops[k + 1].inverse # adjFlag),
                             ops, k + 1, adjFlag)

applyOperations(sv, ops) == applyOperationsFrom(sv, ops, 0, FALSE)

\* applyObservable: observable o applied in place.
applyObservable(sv, o) ==
    [sv EXCEPT !.hist = Append(@, [kind |-> "obs", idx |-> o, flag |-> FALSE])]

\* Mutant: the generator applied without the adjoint flag.
applyGeneratorOnPlain(sv, k, adjFlag) ==
    [sv EXCEPT !.hist = Append(@, [kind |-> "gen", idx |-> k, flag |-> FALSE])]

\* generator_map.at(op_name)(sv, wires, adj) for tape position k.
applyGeneratorOn(sv, k, adjFlag) ==
    [sv EXCEPT !.hist = Append(@, [kind |-> "gen", idx |-> k, flag |-> adjFlag])]

----------------------------------------------------------------------------
(* adjointJacobian.                                                        *)

\* The value updateJacobian stores: -2 * scaling_coeff * Im<sv1|sv2>.
JacEntry(c, sv1, sv2) == [c |-> c, bra |-> sv1, ket |-> sv2]

\* What the caller's Jacobian buffer holds before the call (any numbers).
Prior == [c |-> 0, bra |-> [base |-> "prior", hist |-> <<>>], ket |-> NoState]

\* The value 0 a freshly allocated jac_local holds.
JacZero == [c |-> 0, bra |-> NoState, ket |-> NoState]

\* Mutant: the index of a column-major buffer.
getJacIndexByColumn(obs_index, tp_index, tp_size) == tp_index * tp_size + obs_index

\* getJacIndex / the index updateJacobian writes.
getJacIndex(obs_index, tp_index, tp_size) == obs_index * tp_size + tp_index

\* The locals of adjointJacobian before the call.
AdjIdle ==
    [pc |-> "idle", err |-> "none", op_idx |-> 0, tpPos |-> 0,
     trainableParamNumber |-> 0, current_param_idx |-> 0,
     lambda |-> NoState, mu |-> NoState, H_lambda |-> <<>>,
     jac |-> <<>>, wlog |-> <<>>, oob |-> FALSE]

\* adjointJacobian from the cursors to the reverse loop: the counters,
\* lambda (with the tape applied on request), the bras, mu.
AdjPrelude(c) ==
    LET lam == IF c.apply_operations
               THEN applyOperations(RefState, c.ops)
               ELSE RefState
    IN [AdjIdle EXCEPT
           !.pc = "loop",
           !.op_idx = Len(c.ops) - 1,
           !.tpPos = 0,
           !.trainableParamNumber = Wrap(Len(c.trainableParams) - 1),
           !.current_param_idx = Wrap(getNumParOps(c.ops) - 1),
           !.lambda = lam,
           !.H_lambda = [n \in 1..Len(c.obs) |-> applyObservable(lam, c.obs[n])],
           !.mu = ZeroState,
           !.jac = c.jac]

\* Mutant: the entry without the check of the trainable-parameter list.
AdjEnterUnchecked(c) == AdjPrelude(c)

\* Entry of adjointJacobian: PL_ABORT_IF(trainableParams.empty(), ...),
\* then the prelude.
AdjEnter(c) ==
    IF c.trainableParams = <<>>
    THEN [AdjIdle EXCEPT !.pc = "error", !.err = "InvalidArgument",
                         !.jac = c.jac]
    ELSE AdjPrelude(c)

\* Mutant: the walk ends at a parametric operation only.
TpAtEndAndParametric(c, s) ==
    s.tpPos = Len(c.trainableParams) /\ hasParams(c.ops, s.op_idx)

\* tp_it == tp_rend: the trainable cursor is exhausted.
TpAtEnd(c, s) == s.tpPos = Len(c.trainableParams)

\* The element tp_it points at: tp_it = rbegin + tpPos.
TpAt(c, s) == c.trainableParams[Len(c.trainableParams) - s.tpPos]

\* Mutant: the update of the first observable only.
JacAfterUpdateFirstOnly(c, s, mu, scalingFactor) ==
    LET p0 == getJacIndex(0, s.trainableParamNumber, Len(c.trainableParams)) + 1
    IN [p \in 1..Len(s.jac) |->
            IF p = p0 /\ Len(c.obs) > 0
            THEN JacEntry(scalingFactor, s.H_lambda[1], mu)
            ELSE s.jac[p]]

\* The updateJacobian fan-out of one trainable step: one entry per
\* observable, in column trainableParamNumber.
JacAfterUpdate(c, s, mu, scalingFactor) ==
    LET tp_size == Len(c.trainableParams)
        pos(o) == getJacIndex(o, s.trainableParamNumber, tp_size)
        hit(p) == {o \in 0..(Len(c.obs) - 1) : pos(o) = p}
    IN [p \in 1..Len(s.jac) |->
            IF hit(p - 1) = {} THEN s.jac[p]
            ELSE LET o == CHOOSE x \in hit(p - 1) : TRUE
                 IN JacEntry(scalingFactor, s.H_lambda[o + 1], mu)]

\* The walk is at a one-parameter operation whose position among the
\* parametric operations is the pending trainable index: the branch of the
\* loop body that calls applyGenerator and updateJacobian.
AtPendingTrainable(c, s) ==
    /\ s.pc = "loop"
    /\ s.op_idx >= 0
    /\ c.ops[s.op_idx + 1].params = 1
    /\ ~IsStatePrep(c.ops[s.op_idx + 1].name)
    /\ s.tpPos < Len(c.trainableParams)
    /\ s.current_param_idx = TpAt(c, s)

\* Mutant: a lookup that leaves an entry behind for the name it was asked.
EngineAfterInserting(c, s) ==
    IF AtPendingTrainable(c, s)
    THEN [eng EXCEPT !.generator_map = @ \cup {c.ops[s.op_idx + 1].name}]
    ELSE eng

\* The members of the object after one iteration of the loop: both maps are
\* const members and every lookup is an at(), so the object is as before.
EngineAfter(c, s) == eng

\* What a finished call left: how it ended and the caller's buffer.
NoRun == [pc |-> "none", err |-> "none", jac |-> <<>>]

\* One iteration of the reverse loop up to the Jacobian update and the
\* decrement of the parametric counter.
AdjLoop(c, s) ==
    IF s.op_idx < 0 THEN [s EXCEPT !.pc = "done"]
    ELSE
    LET op == c.ops[s.op_idx + 1]
        tp_size == Len(c.trainableParams)
    IN  IF op.params > 1
        THEN [s EXCEPT !.pc = "error", !.err = "UnsupportedOperation"]
        ELSE IF IsStatePrep(op.name)
        THEN [s EXCEPT !.op_idx = @ - 1]
        ELSE IF TpAtEnd(c, s)
        THEN [s EXCEPT !.pc = "done"]
        ELSE
        LET mu1 == s.lambda
            lam1 == applyOperationAdj(s.lambda, c.ops, s.op_idx)
            s1 == [s EXCEPT !.mu = mu1, !.lambda = lam1]
        IN  IF ~hasParams(c.ops, s.op_idx)
            THEN [s1 EXCEPT !.pc = "bras"]
            ELSE IF s.current_param_idx # TpAt(c, s)
            THEN [s1 EXCEPT !.pc = "bras",
                            !.current_param_idx = Wrap(@ - 1)]
            ELSE IF ~GeneratorAt(eng.generator_map, op.name)
            THEN [s1 EXCEPT !.pc = "error", !.err = "UnknownGenerator"]
            ELSE
            LET mu2 == applyGeneratorOn(mu1, s.op_idx, ~op.inverse)
                scalingFactor ==
                    scaling_factors(op.name) * (IF op.inverse THEN -1 ELSE 1)
                n == Len(c.obs)
            IN [s1 EXCEPT
                  !.pc = "bras",
                  !.mu = mu2,
                  !.jac = JacAfterUpdate(c, s, mu2, scalingFactor),
                  !.oob = @ \/ (n > 0 /\
                      getJacIndex(n - 1, s.trainableParamNumber, tp_size)
                          >= Len(s.jac)),
                  !.wlog = IF n = 0 THEN @
                           ELSE Append(@, [col |-> s.trainableParamNumber,
                                           op |-> s.op_idx]),
                  !.trainableParamNumber = Wrap(@ - 1),
                  !.tpPos = @ + 1,
                  !.current_param_idx = Wrap(@ - 1)]

\* Mutant: the end of the iteration without applyOperationsAdj.
AdjBrasNoUndo(c, s) == [s EXCEPT !.pc = "loop", !.op_idx = @ - 1]

\* The rest of the iteration: applyOperationsAdj on every bra, then the
\* loop's op_idx--.
AdjBras(c, s) ==
    [s EXCEPT !.pc = "loop",
              !.H_lambda = [n \in 1..Len(s.H_lambda) |->
                              applyOperationAdj(s.H_lambda[n], c.ops, s.op_idx)],
              !.op_idx = @ - 1]

\* adjointJacobian run to its end: its locals when it returns or throws
\* (the locals after each step are computed once and then walked on).
RECURSIVE AdjIter(_, _)
AdjIter(c, s) ==
    IF s.pc = "loop"
    THEN CHOOSE r \in {AdjIter(c, t) : t \in {AdjLoop(c, s)}} : TRUE
    ELSE IF s.pc = "bras"
    THEN CHOOSE r \in {AdjIter(c, t) : t \in {AdjBras(c, s)}} : TRUE
    ELSE s

adjointJacobian(c) == CHOOSE r \in {AdjIter(c, t) : t \in {AdjEnter(c)}} : TRUE

----------------------------------------------------------------------------
(* The per-observable fan-outs applyObservables and applyOperationsAdj.    *)

\* No exception: the value nullptr of std::exception_ptr ex.
nullptr == -1

\* The locals of one fan-out call and the state of its team. fn is the
\* fan-out, n the number of tasks (num_observables, num_states), fails the
\* tasks whose body throws, build whether _OPENMP is defined, cancellation
\* the cancel-var ICV (OMP_CANCELLATION), owner[h + 1] the thread the
\* schedule gives iteration h to. ex holds the task whose exception
\* std::current_exception() returned last; captured lists the tasks whose
\* exception was caught, in the order of the catches.
FanCall(fn, n, fails, build, cancellation, owner) ==
    [pc |-> "idle", fn |-> fn, n |-> n, fails |-> fails, build |-> build,
     cancellation |-> cancellation, owner |-> owner,
     started |-> {}, left |-> {}, ex |-> nullptr, captured |-> <<>>]

NoFan == FanCall("none", 0, {}, "serial", FALSE, <<>>)

\* The iterations of the loop thread t has still to run.
Pending(f, t) == {h \in 0..(f.n - 1) : f.owner[h + 1] = t /\ h \notin f.started}

\* The catch block: ex = std::current_exception() (inside omp critical
\* when _OPENMP is defined).
Catch(f, h) == [f EXCEPT !.ex = h, !.captured = Append(@, h)]

\* #pragma omp cancel for in the catch block of thread t: compiled only
\* when _OPENMP is defined, and without effect unless cancel-var is true;
\* then thread t leaves the loop, and the other threads go on (they meet
\* no cancellation point before the end of their iterations).
CancelFor(f, t) ==
    IF f.build = "openmp" /\ f.cancellation
    THEN [f EXCEPT !.left = @ \cup {t}]
    ELSE f

----------------------------------------------------------------------------
(* The inputs of the single-device sweep.                                  *)

\* The buffer the caller preallocates: observables * trainable parameters
\* entries (one entry per observable when the trainable list is empty, so
\* that a call that must leave the buffer untouched has a buffer).
CallerJac(n, tp) ==
    [p \in 1..(n * (IF tp = <<>> THEN 1 ELSE Len(tp))) |-> Prior]

\* The arguments of one adjointJacobian call.
CallArgs(ops, tp, n, ap) ==
    [ops |-> ops, trainableParams |-> tp, obs |-> [i \in 1..n |-> i - 1],
     apply_operations |-> ap, jac |-> CallerJac(n, tp)]

\* The calls the sweep is checked on: every tape of at most MaxOps
\* operations (with every ascending list of trainable positions among its
\* parametric operations, the empty list included, one observable or
\* MaxObs observables, either value of apply_operations).
Tapes == SeqsUpTo(OpKinds, MaxOps)

NoCall == CallArgs(<<>>, <<>>, 0, FALSE)

----------------------------------------------------------------------------
(* The observable classes.                                                 *)

\* NamedObsGPU(obs_name, wires, params): the fields are stored as given.
NamedObsGPU(obs_name, wires, params) ==
    [variant |-> "Named", name |-> obs_name, wires |-> wires,
     params |-> params, matrix |-> <<>>]

\* HermitianObsGPU(matrix, wires).
HermitianObsGPU(matrix, wires) ==
    [variant |-> "Hermitian", name |-> "Hermitian", wires |-> wires,
     params |-> <<>>, matrix |-> matrix]

\* getWires of a Named or Hermitian observable: wires_ as stored.
getWires(ob) == ob.wires

\* Mutant: the elements of the set in descending order.
RECURSIVE DescendingSeq(_)
DescendingSeq(S) ==
    IF S = {} THEN <<>>
    ELSE LET m == CHOOSE x \in S : \A y \in S : x >= y
         IN <<m>> \o DescendingSeq(S \ {m})

\* std::sort of the elements of a set of wires.
RECURSIVE SortedSeq(_)
SortedSeq(S) ==
    IF S = {} THEN <<>>
    ELSE LET m == CHOOSE x \in S : \A y \in S : x <= y
         IN <<m>> \o SortedSeq(S \ {m})

\* The wires of the members in the order the constructor visits them.
RECURSIVE MemberWires(_, _)
MemberWires(obs, k) ==
    IF k > Len(obs) THEN <<>>
    ELSE getWires(obs[k]) \o MemberWires(obs, k + 1)

\* Mutant: the constructor loop without wires.insert(wire).
RECURSIVE ScanWiresNoInsert(_, _, _)
ScanWiresNoInsert(ws, k, wires) ==
    IF k > Len(ws) THEN [ok |-> TRUE, wires |-> {ws[j] : j \in 1..Len(ws)}]
    ELSE IF ws[k] \in wires THEN [ok |-> FALSE, wires |-> wires]
    ELSE ScanWiresNoInsert(ws, k + 1, wires)

\* The constructor's loops over the members and their wires: PL_ABORT at
\* the first wire the set already contains, else the wire is inserted.
RECURSIVE ScanWires(_, _, _)
ScanWires(ws, k, wires) ==
    IF k > Len(ws) THEN [ok |-> TRUE, wires |-> wires]
    ELSE IF ws[k] \in wires THEN [ok |-> FALSE, wires |-> wires]
    ELSE ScanWires(ws, k + 1, wires \cup {ws[k]})

\* TensorProdObsGPU(obs...): the constructed object, or the abort.
TensorProdObsGPU(obs) ==
    LET r == ScanWires(MemberWires(obs, 1), 1, {})
    IN IF r.ok
       THEN [pc |-> "constructed", obs |-> obs, all_wires |-> SortedSeq(r.wires)]
       ELSE [pc |-> "aborted", obs |-> obs, all_wires |-> <<>>]

NoTensorProd == [pc |-> "idle", obs |-> <<>>, all_wires |-> <<>>]

\* Wire lists of one or two wires, repeated wires included (the
\* constructors of Named and Hermitian observables check nothing).
WireLists == {ws \in SeqsUpTo(0..MaxWire, 2) : ws # <<>>}

\* The observables tensor products are built from.
LeafObs ==
    {NamedObsGPU("PauliX", ws, <<>>) : ws \in WireLists}
    \cup {HermitianObsGPU(<<1, 0, 0, 1>>, <<w>>) : w \in 0..MaxWire}

\* TensorProdObsGPU::getWires: all_wires_ as the constructor left it.
TensorProdGetWires(t) == t.all_wires

\* The TensorProdObsGPU object a successful constructor call yields.
TensorProdOf(obs) ==
    [variant |-> "TensorProd", obs |-> obs,
     all_wires |-> TensorProdObsGPU(obs).all_wires]

----------------------------------------------------------------------------
(* Floating-point fields (the template parameter T).                       *)

\* A value of type T: a number, or NaN.
Float(v) == [nan |-> FALSE, val |-> v]
NaN == [nan |-> TRUE, val |-> 0]

\* operator== of two values of type T (IEEE 754): NaN compares unequal to
\* everything, itself included.
FloatEq(x, y) == ~x.nan /\ ~y.nan /\ x.val = y.val

\* operator== of two std::vector<T> (or std::vector<std::complex<T>>): the
\* same size and element-wise equal.
VecEq(u, v) == Len(u) = Len(v) /\ \A i \in 1..Len(u) : FloatEq(u[i], v[i])

----------------------------------------------------------------------------
(* GateCache: the gate-value cache (host_gates_ and device_gates_).        *)

\* Largest number of member-function calls made on one cache.
MaxCalls == 3

\* sizeof(CFP_t) for double precision (double2).
SizeofCFP == 16

\* gate_id: std::pair<std::string, fp_t>.
gate_id(gate_name, gate_param) == [name |-> gate_name, param |-> gate_param]

\* operator== of two gate_id (std::pair): both members compare equal; the
\* parameters are compared as floating-point values.
KeyEq(a, b) == a.name = b.name /\ FloatEq(a.param, b.param)

\* A std::unordered_map is the sequence of its elements [key, val] in the
\* order of their insertion.  find: the position of the element whose key
\* compares equal to k, 0 for end().
RECURSIVE FindFrom(_, _, _)
FindFrom(m, k, i) ==
    IF i > Len(m) THEN 0
    ELSE IF KeyEq(m[i].key, k) THEN i
    ELSE FindFrom(m, k, i + 1)

find(m, k) == FindFrom(m, k, 1)

\* The keys of the elements of a map.
KeysOf(m) == {m[i].key : i \in 1..Len(m)}

\* operator[]: the element whose key compares equal to k, inserted with a
\* value-initialised value when find(k) is end().
Subscript(m, k, dflt) ==
    IF find(m, k) # 0 THEN [map |-> m, at |-> find(m, k)]
    ELSE [map |-> Append(m, [key |-> k, val |-> dflt]), at |-> Len(m) + 1]

\* map[k] = v.
Assign(m, k, dflt, v) ==
    LET s == Subscript(m, k, dflt) IN [s.map EXCEPT ![s.at].val = v]

\* at(k): the value of the element with key k (std::out_of_range else).
at(m, k) == m[find(m, k)].val

\* A value-initialised std::vector<CFP_t> and DataBuffer<CFP_t>.
EmptyVector == <<>>
DefaultBuffer == [size |-> 0, data |-> <<>>]

\* DataBuffer{length, device_tag}: length elements, not yet written.
DataBuffer(length) == [size |-> length, data |-> [i \in 1..length |-> "?"]]

\* DataBuffer::CopyHostDataToGpu(host_in, length): the first length
\* elements of the buffer become those of host_in.
CopyHostDataToGpu(buf, host_in, length) ==
    [buf EXCEPT !.data = [i \in 1..Len(@) |->
                             IF i <= length THEN host_in[i] ELSE @[i]]]

\* The matrices of the default gate set, element by element.
DefaultGates ==
    <<[name |-> "Identity", val |-> <<"1", "0", "0", "1">>],
      [name |-> "PauliX", val |-> <<"0", "1", "1", "0">>],
      [name |-> "PauliY", val |-> <<"0", "-i", "i", "0">>],
      [name |-> "PauliZ", val |-> <<"1", "0", "0", "-1">>],
      [name |-> "Hadamard", val |-> <<"r", "r", "r", "-r">>],
      [name |-> "S", val |-> <<"1", "0", "0", "i">>],
      [name |-> "T", val |-> <<"1", "0", "0", "r(1+i)">>],
      [name |-> "SWAP", val |-> <<"1", "0", "0", "0", "0", "0", "1", "0",
                                  "0", "1", "0", "0", "0", "0", "0", "1">>],
      [name |-> "CNOT", val |-> <<"0", "1", "1", "0">>],
      [name |-> "Toffoli", val |-> <<"0", "1", "1", "0">>],
      [name |-> "CZ", val |-> <<"1", "0", "0", "-1">>]>>

\* The assignments host_gates_[(name, 0.0)] = matrix, one after another.
RECURSIVE PopulateHost(_, _)
PopulateHost(h, i) ==
    IF i > Len(DefaultGates) THEN h
    ELSE PopulateHost(Assign(h, gate_id(DefaultGates[i].name, Float(0)),
                             EmptyVector, DefaultGates[i].val), i + 1)

\* The loop over host_gates_: a buffer of the size of each host vector,
\* filled with it, and the allocation counter advanced.
RECURSIVE PopulateDevice(_, _, _)
PopulateDevice(c, h, i) ==
    IF i > Len(h) THEN c
    ELSE LET k == h[i].key
             v == h[i].val
             d1 == Assign(c.device_gates_, k, DefaultBuffer,
                          DataBuffer(Len(v)))
             s == Subscript(d1, k, DefaultBuffer)
             d2 == [s.map EXCEPT
                       ![s.at].val = CopyHostDataToGpu(@, v, Len(v))]
         IN PopulateDevice(
                [c EXCEPT !.device_gates_ = d2,
                          !.total_alloc_bytes_ = @ + SizeofCFP * Len(v)],
                h, i + 1)

\* defaultPopulateCache().
defaultPopulateCache(c) ==
    LET h1 == PopulateHost(c.host_gates_, 1)
        h2 == Assign(h1, gate_id("CSWAP", Float(0)), EmptyVector,
                     at(h1, gate_id("SWAP", Float(0))))
    IN PopulateDevice([c EXCEPT !.host_gates_ = h2], h2, 1)

\* GateCache(populate, device_id, stream_id).
GateCache(populate, device_id) ==
    LET c == [device_tag_ |-> device_id, total_alloc_bytes_ |-> 0,
              host_gates_ |-> <<>>, device_gates_ |-> <<>>]
    IN IF populate THEN defaultPopulateCache(c) ELSE c

\* gateExists(gate): the key is found in both maps.
gateExists(c, gate) ==
    find(c.host_gates_, gate) # 0 /\ find(c.device_gates_, gate) # 0

\* gateExists(gate_name, gate_param).
gateExistsByName(c, gate_name, gate_param) ==
    find(c.host_gates_, gate_id(gate_name, gate_param)) # 0
    /\ find(c.device_gates_, gate_id(gate_name, gate_param)) # 0

\* Mutant: add_gate with emplace in place of the assignments, which keeps
\* the value of a key the maps already hold.
add_gateEmplace(c, gate_key, host_data) ==
    IF find(c.host_gates_, gate_key) # 0 THEN c
    ELSE [c EXCEPT
            !.host_gates_ = Append(@, [key |-> gate_key, val |-> host_data]),
            !.device_gates_ =
                Append(@, [key |-> gate_key,
                           val |-> CopyHostDataToGpu(DataBuffer(Len(host_data)),
                                                     host_data,
                                                     Len(host_data))]),
            !.total_alloc_bytes_ = @ + SizeofCFP * Len(host_data)]

\* add_gate(gate_key, host_data): the host vector is stored under the key,
\* read back through the key, and a device buffer of its size is stored
\* under the key and filled with it.
add_gate(c, gate_key, host_data) ==
    LET h1 == Assign(c.host_gates_, gate_key, EmptyVector, host_data)
        g == Subscript(h1, gate_key, EmptyVector)
        gate == g.map[g.at].val
        d1 == Assign(c.device_gates_, gate_key, DefaultBuffer,
                     DataBuffer(Len(gate)))
        s == Subscript(d1, gate_key, DefaultBuffer)
        d2 == [s.map EXCEPT
                  ![s.at].val = CopyHostDataToGpu(@, gate, Len(gate))]
    IN [c EXCEPT !.host_gates_ = g.map,
                 !.device_gates_ = d2,
                 !.total_alloc_bytes_ = @ + SizeofCFP * Len(gate)]

\* add_gate(gate_name, gate_param, host_data): the same statements on the
\* key (gate_name, gate_param).
add_gateByName(c, gate_name, gate_param, host_data) ==
    add_gate(c, gate_id(gate_name, gate_param), host_data)

\* get_gate_device_ptr: device_gates_[key].getData(); the result is what
\* the returned pointer points to.
get_gate_device_ptr(c, gate_key) ==
    LET s == Subscript(c.device_gates_, gate_key, DefaultBuffer)
    IN [cache |-> [c EXCEPT !.device_gates_ = s.map],
        ret |-> s.map[s.at].val.data]

\* get_gate_host: host_gates_[key], returned by value.
get_gate_host(c, gate_key) ==
    LET s == Subscript(c.host_gates_, gate_key, EmptyVector)
    IN [cache |-> [c EXCEPT !.host_gates_ = s.map],
        ret |-> s.map[s.at].val]

\* The keys and the host vectors the callers use: a gate of the default
\* set, a parametric gate at two angles, and a gate whose angle is NaN.
GateKeys ==
    {gate_id("PauliX", Float(0)), gate_id("RX", Float(0)),
     gate_id("RX", Float(1)), gate_id("RX", NaN)}

HostVectors == {<<"a">>, <<"b", "c">>}

\* The keys defaultPopulateCache inserts.
DefaultKeys ==
    {gate_id(DefaultGates[i].name, Float(0)) : i \in 1..Len(DefaultGates)}
    \cup {gate_id("CSWAP", Float(0))}

\* The cache object, the last call made on it with its result, the number
\* of calls, and the keys defaultPopulateCache and add_gate were given.
NoCache ==
    [pc |-> "none", cache |-> GateCache(FALSE, 0), ncalls |-> 0,
     last |-> [op |-> "none", key |-> gate_id("", Float(0)),
               data |-> <<>>, ret |-> <<>>, found |-> FALSE],
     inserted |-> {}]

NewCache(populate) ==
    [pc |-> "constructed", cache |-> GateCache(populate, 0), ncalls |-> 0,
     last |-> [op |-> "GateCache", key |-> gate_id("", Float(0)),
               data |-> <<>>, ret |-> <<>>, found |-> FALSE],
     inserted |-> IF populate THEN DefaultKeys ELSE {}]

----------------------------------------------------------------------------
(* HamiltonianGPU.                                                         *)

\* Mutant: the constructor without PL_ASSERT.
HamiltonianGPUUnchecked(coeffs, obs) ==
    [pc |-> "constructed", coeffs |-> coeffs, obs |-> obs]

\* HamiltonianGPU(arg1, arg2): coeffs_ and obs_ are stored, then
\* PL_ASSERT(coeffs_.size() == obs_.size()) aborts the construction.
HamiltonianGPU(coeffs, obs) ==
    IF Len(coeffs) = Len(obs)
    THEN [pc |-> "constructed", coeffs |-> coeffs, obs |-> obs]
    ELSE [pc |-> "aborted", coeffs |-> coeffs, obs |-> obs]

NoHamiltonian == [pc |-> "idle", coeffs |-> <<>>, obs |-> <<>>]

\* The HamiltonianGPU object a successful constructor call yields.
HamiltonianOf(coeffs, obs) ==
    [variant |-> "Hamiltonian", coeffs |-> coeffs, obs |-> obs]

\* The coefficient lists Hamiltonians are built from.
CoeffLists == SeqsUpTo({Float(1), Float(2)}, MaxMembers)

----------------------------------------------------------------------------
(* operator== and getObsName of the observable classes.                    *)

\* typeid(*this): the concrete class of the object.
typeid(ob) == ob.variant

\* NamedObsGPU::isEqual.
NamedIsEqual(a, b) ==
    /\ a.name = b.name
    /\ a.wires = b.wires
    /\ VecEq(a.params, b.params)

\* Mutant: matrices compared, wires not.
HermitianIsEqualMatrixOnly(a, b) == VecEq(a.matrix, b.matrix)

\* HermitianObsGPU::isEqual.
HermitianIsEqual(a, b) == VecEq(a.matrix, b.matrix) /\ a.wires = b.wires

\* ObservableGPU::operator== and the isEqual it dispatches to.
\* TensorProdObsGPU::isEqual compares the sizes and then the members in
\* order; HamiltonianGPU::isEqual compares coeffs_ and then, for every
\* index of its own obs_, the terms.
RECURSIVE operatorEq(_, _), isEqual(_, _)
operatorEq(a, b) == typeid(a) = typeid(b) /\ isEqual(a, b)

isEqual(a, b) ==
    CASE a.variant = "Named" -> NamedIsEqual(a, b)
      [] a.variant = "Hermitian" -> HermitianIsEqual(a, b)
      [] a.variant = "TensorProd" ->
            /\ Len(a.obs) = Len(b.obs)
            /\ \A i \in 1..Len(a.obs) : operatorEq(a.obs[i], b.obs[i])
      [] a.variant = "Hamiltonian" ->
            /\ VecEq(a.coeffs, b.coeffs)
            /\ \A i \in 1..Len(a.obs) : operatorEq(a.obs[i], b.obs[i])

\* The pieces operator<< writes to the stream of a name: a text, a vector
\* of wires, or a vector of values of type T.
Text(t) == [text |-> t, wires |-> <<>>, vals |-> <<>>]
WiresText(w) == [text |-> "", wires |-> w, vals |-> <<>>]
ValsText(v) == [text |-> "", wires |-> <<>>, vals |-> v]

\* getObsName of every class, and the loop of TensorProdObsGPU and
\* HamiltonianGPU that writes the names of obs_[idx], obs_[idx + 1], ...
\* with the separator between them.
RECURSIVE getObsName(_), JoinObsNames(_, _, _)
getObsName(ob) ==
    CASE ob.variant = "Named" -> <<Text(ob.name), WiresText(ob.wires)>>
      [] ob.variant = "Hermitian" -> <<Text("Hermitian")>>
      [] ob.variant = "TensorProd" -> JoinObsNames(ob.obs, 0, " @ ")
      [] ob.variant = "Hamiltonian" ->
            <<Text("Hamiltonian: { 'coeffs' : "), ValsText(ob.coeffs),
              Text(", 'observables' : [")>>
            \o JoinObsNames(ob.obs, 0, ", ") \o <<Text("]}")>>

JoinObsNames(obs, idx, sep) ==
    IF idx >= Len(obs) THEN <<>>
    ELSE getObsName(obs[idx + 1])
         \o (IF idx # Len(obs) - 1 THEN <<Text(sep)>> ELSE <<>>)
         \o JoinObsNames(obs, idx + 1, sep)

\* The members composite observables are compared on.
CmpMembers ==
    { NamedObsGPU("PauliX", <<0>>, <<>>), NamedObsGPU("PauliX", <<1>>, <<>>),
      NamedObsGPU("RX", <<2>>, <<NaN>>), HermitianObsGPU(<<Float(1)>>, <<2>>) }

\* The observables operator== and getObsName are called on: Named and
\* Hermitian observables that differ in one field at a time (NaN included),
\* the tensor products the constructor accepts and the Hamiltonians it
\* accepts, a tensor product among their terms.
CmpObs ==
    {NamedObsGPU("PauliX", <<w>>, <<>>) : w \in 0..MaxWire}
    \cup {NamedObsGPU("PauliZ", <<0>>, <<>>)}
    \cup {NamedObsGPU("RX", <<0>>, <<x>>) : x \in {Float(1), Float(2), NaN}}
    \cup {HermitianObsGPU(<<Float(1)>>, <<w>>) : w \in 0..MaxWire}
    \cup {HermitianObsGPU(<<x>>, <<0>>) : x \in {Float(2), NaN}}
    \cup {TensorProdOf(obs) : obs \in
            {m \in SeqsUpTo(CmpMembers, MaxMembers) :
                TensorProdObsGPU(m).pc = "constructed"}}
    \cup {HamiltonianOf([i \in 1..Len(obs) |-> x], obs) :
            x \in {Float(1), Float(2)},
            obs \in SeqsUpTo(CmpMembers
                             \cup {TensorProdOf(<<NamedObsGPU("PauliX", <<0>>, <<>>),
                                                  NamedObsGPU("PauliX", <<1>>, <<>>)>>)},
                             MaxMembers)}

\* The operands before a call, and the results of the calls.
Compare(a, b) ==
    [pc |-> "idle", lhs |-> a, rhs |-> b, eq |-> FALSE, eqRev |-> FALSE,
     eqSelf |-> FALSE, nameL |-> <<>>, nameR |-> <<>>]

NoCompare == Compare(NamedObsGPU("PauliX", <<0>>, <<>>),
                     NamedObsGPU("PauliX", <<0>>, <<>>))

----------------------------------------------------------------------------
(* applyInPlace of the observable classes.                                 *)

\* The state a sum of scaled states is: d_res after scaleAndAddC_CUDA has
\* added coefficient * state for every term of the sequence, in order (no
\* term: the zero state the accumulator is created as).
SumState(terms) == [base |-> "sum", hist |-> <<>>, terms |-> terms]

\* sv.applyOperation(obs_name_, wires_, false, params_) of NamedObsGPU and
\* sv.applyOperation_std(obs_name_, wires_, false, {}, matrix_) of
\* HermitianObsGPU: the kernel of the observable applied to the state.
applyKernel(ob, sv) == [sv EXCEPT !.hist = Append(@, [kind |-> "kernel", ob |-> ob])]

\* applyInPlace of every class: TensorProdObsGPU applies its members in
\* order to the same state (ApplyMembers); HamiltonianGPU replaces the
\* state by the sum over its terms of coefficient * (term applied to a copy
\* of the state) (SumOfTerms).
RECURSIVE applyInPlace(_, _), ApplyMembers(_, _, _), SumOfTerms(_, _, _)
applyInPlace(ob, sv) ==
    CASE ob.variant = "Named" -> applyKernel(ob, sv)
      [] ob.variant = "Hermitian" -> applyKernel(ob, sv)
      [] ob.variant = "TensorProd" -> ApplyMembers(ob.obs, 0, sv)
      [] ob.variant = "Hamiltonian" -> SumState(SumOfTerms(ob, 0, sv))

ApplyMembers(obs, idx, sv) ==
    IF idx >= Len(obs) THEN sv
    ELSE ApplyMembers(obs, idx + 1, applyInPlace(obs[idx + 1], sv))

SumOfTerms(h, term_idx, sv) ==
    IF term_idx >= Len(h.coeffs) THEN <<>>
    ELSE <<[c |-> h.coeffs[term_idx + 1],
            sv |-> applyInPlace(h.obs[term_idx + 1], sv)]>>
         \o SumOfTerms(h, term_idx + 1, sv)

\* The terms the Hamiltonians applyInPlace is called on are built from: a
\* tensor product and a Hamiltonian among them.
ApplyTerms ==
    { NamedObsGPU("PauliX", <<0>>, <<>>), NamedObsGPU("PauliZ", <<1>>, <<>>),
      HermitianObsGPU(<<Float(1)>>, <<2>>),
      TensorProdOf(<<NamedObsGPU("PauliX", <<0>>, <<>>),
                     NamedObsGPU("PauliZ", <<1>>, <<>>)>>),
      HamiltonianOf(<<Float(2)>>, <<NamedObsGPU("PauliZ", <<1>>, <<>>)>>) }

\* The locals of HamiltonianGPU::applyInPlace before the call of object h
\* on the state sv (input keeps what the caller passed).
ApplyCall(h, sv) ==
    [pc |-> "idle", h |-> h, input |-> sv, sv |-> sv, d_res |-> <<>>,
     tmp |-> NoState, term_idx |-> 0]

NoApply == ApplyCall(HamiltonianOf(<<>>, <<>>), NoState)

\* Mutant: the copy of the state the term before left.
CopyOfLastTerm(a) == IF a.term_idx = 0 THEN a.sv ELSE a.tmp

\* StateVectorCudaManaged<T> tmp(sv): a copy of the caller's state.
FreshCopy(a) == a.sv

----------------------------------------------------------------------------
(* The devices of the state copies of one sweep.                           *)

\* The identifiers of the devices.
Devices == 0..(MaxDevices - 1)

\* The device of a StateVectorCudaManaged constructed without a device
\* tag.
DefaultDevice == 0

\* One entry of the record of a sweep: a state copy created on device a
\* (b = a), or an operation on two state copies living on devices a and b.
Created(what, dev) == [op |-> "create", what |-> what, a |-> dev, b |-> dev]
Binary(op, a, b) == [op |-> op, what |-> "", a |-> a, b |-> b]

\* StateVectorCudaManaged<T> d_res(h_res.data(), sv.getLength()): the
\* accumulator, constructed without a device tag.
AccumulatorDevice(dev) == DefaultDevice

\* applyInPlace on a state living on device dev: the state copies it
\* creates and the two-state operations it performs, in order.  Named and
\* Hermitian observables run a kernel on the state itself; HamiltonianGPU
\* creates d_res, and per term a copy tmp(sv) that is scaled and added to
\* d_res on the device of tmp, and at last sv.updateData(d_res).
RECURSIVE applyInPlaceOn(_, _), MembersOn(_, _, _), TermsOn(_, _, _)
applyInPlaceOn(ob, dev) ==
    CASE ob.variant = "Named" -> <<>>
      [] ob.variant = "Hermitian" -> <<>>
      [] ob.variant = "TensorProd" -> MembersOn(ob.obs, 0, dev)
      [] ob.variant = "Hamiltonian" ->
           <<Created("d_res", AccumulatorDevice(dev))>>
           \o TermsOn(ob, 0, dev)
           \o <<Binary("updateData", dev, AccumulatorDevice(dev))>>

MembersOn(obs, idx, dev) ==
    IF idx >= Len(obs) THEN <<>>
    ELSE applyInPlaceOn(obs[idx + 1], dev) \o MembersOn(obs, idx + 1, dev)

TermsOn(h, term_idx, dev) ==
    IF term_idx >= Len(h.coeffs) THEN <<>>
    ELSE <<Created("tmp", dev)>>
         \o applyInPlaceOn(h.obs[term_idx + 1], dev)
         \o <<Binary("scaleAndAddC_CUDA", dev, AccumulatorDevice(dev))>>
         \o TermsOn(h, term_idx + 1, dev)

\* The observables of the sweeps whose devices are followed: a named
\* observable, a tensor product, a Hamiltonian and a Hamiltonian with a
\* Hamiltonian among its terms.
SweepObs ==
    { NamedObsGPU("PauliX", <<0>>, <<>>),
      TensorProdOf(<<NamedObsGPU("PauliX", <<0>>, <<>>),
                     NamedObsGPU("PauliZ", <<1>>, <<>>)>>),
      HamiltonianOf(<<Float(2)>>, <<NamedObsGPU("PauliZ", <<1>>, <<>>)>>),
      HamiltonianOf(<<Float(1), Float(2)>>,
                    <<NamedObsGPU("PauliX", <<0>>, <<>>),
                      HamiltonianOf(<<Float(2)>>,
                                    <<NamedObsGPU("PauliZ", <<1>>, <<>>)>>)>>) }

\* The device tag and the observables of a sweep, the devices of its state
\* copies (-1: not yet created), and the record of what it created and
\* combined.
SweepOn(d, obs) ==
    [pc |-> "idle", d |-> d, obs |-> obs, lambda |-> -1, mu |-> -1,
     H_lambda |-> <<>>, i |-> 0, log |-> <<>>, err |-> "none"]

NoDevs == SweepOn(0, <<>>)

----------------------------------------------------------------------------
(* batchAdjointJacobian: the orchestrator and the shard workers.           *)

\* std::ceil of a size_t argument converts it to double: exact for the
\* sizes of the model, except that the largest size_t value rounds up to
\* 2^w, which no size_t holds.
CeilToDouble(x) == IF x = SizeModulus - 1 THEN SizeModulus ELSE x

\* static_cast<std::size_t> of a double. A value outside the range of
\* size_t is undefined behaviour: the conversion yields 0, 2^(w-1) or the
\* saturated 2^w - 1, depending on the instructions the build emits.
CastToSize(d) ==
    IF d < SizeModulus THEN {d}
    ELSE {0, SizeModulus \div 2, SizeModulus - 1}

\* first of chunk i: obs.size() * i / num_chunks in size_t arithmetic.
FirstOf(n, i, num_chunks) == Wrap(n * i) \div num_chunks

\* last of chunk i: the values the cast can yield for
\* obs.size() * (i + 1) / num_chunks - 1.
LastOf(n, i, num_chunks) ==
    CastToSize(CeilToDouble(Wrap((Wrap(n * (i + 1)) \div num_chunks) - 1)))

\* std::vector<T> cannot be created with more than max_size() elements.
VectorMaxSize == SizeModulus \div 16

\* A worker thread before std::thread starts it.
WorkerUnborn ==
    [pc |-> "unborn", id |-> -1, sizeFirst |-> 0, sizeLast |-> 0,
     sliceFirst |-> 0, sliceLast |-> 0, jac_local |-> <<>>,
     res |-> [pc |-> "idle", err |-> "none", created |-> FALSE, writes |-> 0],
     promise |-> "unset", reads |-> 0]

BatchIdle ==
    [pc |-> "idle", i |-> 0, first |-> 0, last |-> 0, ranges |-> <<>>,
     jac |-> <<>>, merged |-> 0, cause |-> "none"]

\* The arguments of one batchAdjointJacobian call, with the number of
\* devices the pool reports.
BatchArgs(ops, tp, n, ap, k) ==
    [ops |-> ops, trainableParams |-> tp, obs |-> [i \in 1..n |-> i - 1],
     apply_operations |-> ap, jac |-> CallerJac(n, tp), num_gpus |-> k]

NoBatch == BatchArgs(<<>>, <<>>, 0, FALSE, 0)

\* The tapes the batcher is checked on: one the sweep accepts, one with a
\* three-parameter operation.
BatchTapes ==
    { <<Op("RX", 1, FALSE), Op("PhaseShift", 1, FALSE)>>,
      <<Op("Rot", 3, FALSE), Op("RX", 1, FALSE)>> }

Running == orch.pc \notin {"idle", "terminated", "returned"}

\* batchAdjointJacobian up to its submission loop: the pool with every
\* device free, the (empty) thread and future vectors.
BatchEnter ==
    /\ orch.pc = "idle"
    /\ bin.num_gpus > 0
    /\ orch' = [orch EXCEPT !.pc = "first", !.i = 0, !.jac = bin.jac]
    /\ wk' = [w \in 1..bin.num_gpus |-> WorkerUnborn]
    /\ dp' = 0..(bin.num_gpus - 1)
    /\ UNCHANGED <<bin, sweepVars, engVars, obsVars>>

\* Head of the submission loop and the definition of first; when the loop
\* ends the merge loop starts.
OrchFirst ==
    /\ orch.pc = "first"
    /\ IF orch.i < bin.num_gpus
       THEN orch' = [orch EXCEPT !.pc = "last",
                        !.first = FirstOf(Len(bin.obs), orch.i, bin.num_gpus)]
       ELSE orch' = [orch EXCEPT !.pc = "merge", !.i = 0]
    /\ UNCHANGED <<bin, wk, dp, sweepVars, engVars, obsVars>>

\* The definition of last.
OrchLast ==
    /\ orch.pc = "last"
    /\ \E l \in LastOf(Len(bin.obs), orch.i, bin.num_gpus) :
         orch' = [orch EXCEPT !.pc = "spawn", !.last = l,
                     !.ranges = Append(@, [first |-> orch.first, last |-> l])]
    /\ UNCHANGED <<bin, wk, dp, sweepVars, engVars, obsVars>>

\* The promise, its future, and the thread started on adj_lambda.
OrchSpawn ==
    /\ orch.pc = "spawn"
    /\ wk' = [wk EXCEPT ![orch.i + 1].pc = "start"]
    /\ orch' = [orch EXCEPT !.pc = "first", !.i = @ + 1]
    /\ UNCHANGED <<bin, dp, sweepVars, engVars, obsVars>>

\* Worker: dp.acquireDevice() blocks until a device is free; then the
\* device tag and the state-vector copy local_sv on that device.
WorkerAcquire(w) ==
    /\ Running
    /\ wk[w].pc = "start"
    /\ \E d \in dp :
         /\ dp' = dp \ {d}
         /\ wk' = [wk EXCEPT ![w].pc = "alloc", ![w].id = d]
    /\ UNCHANGED <<bin, orch, sweepVars, engVars, obsVars>>

\* Worker: jac_local((last - first + 1) * trainableParams.size(), 0). The
\* closure captured first and last by reference, and they are locals of
\* the body of the submission loop: the worker reads what their storage
\* holds at the time of the read (orch.first, orch.last), which the later
\* iterations of the loop overwrite. An allocation past max_size() throws
\* std::length_error, which leaves the thread function uncaught.
WorkerAlloc(w) ==
    /\ Running
    /\ wk[w].pc = "alloc"
    /\ LET size == Wrap(Wrap(orch.last - orch.first + 1)
                          * Len(bin.trainableParams))
       IN IF size > VectorMaxSize
          THEN /\ wk' = [wk EXCEPT ![w].pc = "uncaught", ![w].reads = 1,
                                   ![w].sizeFirst = orch.first,
                                   ![w].sizeLast = orch.last]
               /\ orch' = [orch EXCEPT !.pc = "terminated",
                                       !.cause = "length_error"]
          ELSE /\ wk' = [wk EXCEPT ![w].pc = "sweep", ![w].reads = 1,
                                   ![w].sizeFirst = orch.first,
                                   ![w].sizeLast = orch.last,
                                   ![w].jac_local = [p \in 1..size |-> JacZero]]
               /\ orch' = orch
    /\ UNCHANGED <<bin, dp, sweepVars, engVars, obsVars>>

\* The arguments the worker gives adjointJacobian: the observables
\* obs[first] .. obs[last] and its jac_local.
ShardArgs(first, last, jac_local) ==
    [ops |-> bin.ops, trainableParams |-> bin.trainableParams,
     obs |-> [h \in 1..(last + 1 - first) |-> bin.obs[first + h]],
     apply_operations |-> bin.apply_operations, jac |-> jac_local]

\* Worker: the adjointJacobian call on the slice
\* {obs.begin() + first, obs.begin() + last + 1}. A slice that is no range
\* of obs, or a write past jac_local, is undefined behaviour and modelled
\* as the crash of the process; an exception leaves the thread function
\* uncaught, which ends the process through std::terminate.
WorkerSweep(w) ==
    /\ Running
    /\ wk[w].pc = "sweep"
    /\ LET first == orch.first
           past == Wrap(orch.last + 1)
           seen == [wk EXCEPT ![w].sliceFirst = first, ![w].reads = 2,
                              ![w].sliceLast = orch.last]
       IN IF first > past \/ past > Len(bin.obs)
          THEN /\ wk' = [seen EXCEPT ![w].pc = "crashed"]
               /\ orch' = [orch EXCEPT !.pc = "terminated",
                                       !.cause = "bad_slice"]
          ELSE
          LET r == adjointJacobian(ShardArgs(first, past - 1, wk[w].jac_local))
              res == [pc |-> r.pc, err |-> r.err,
                      created |-> r.lambda # NoState, writes |-> Len(r.wlog)]
          IN IF r.oob
             THEN /\ wk' = [seen EXCEPT ![w].pc = "crashed", ![w].res = res]
                  /\ orch' = [orch EXCEPT !.pc = "terminated",
                                          !.cause = "heap_overrun"]
             ELSE IF r.pc = "error"
             THEN /\ wk' = [seen EXCEPT ![w].pc = "uncaught", ![w].res = res,
                                        ![w].jac_local = r.jac]
                  /\ orch' = [orch EXCEPT !.pc = "terminated",
                                          !.cause = r.err]
             ELSE /\ wk' = [seen EXCEPT ![w].pc = "promise", ![w].res = res,
                                        ![w].jac_local = r.jac]
                  /\ orch' = orch
    /\ UNCHANGED <<bin, dp, sweepVars, engVars, obsVars>>

\* Mutant: the worker goes on without setting the value of its promise.
WorkerSkipSetValue(w) ==
    /\ Running
    /\ wk[w].pc = "promise"
    /\ wk' = [wk EXCEPT ![w].pc = "release"]
    /\ UNCHANGED <<bin, orch, dp, sweepVars, engVars, obsVars>>

\* Worker: j_promise.set_value(std::move(jac_local)).
WorkerSetValue(w) ==
    /\ Running
    /\ wk[w].pc = "promise"
    /\ wk' = [wk EXCEPT ![w].pc = "release", ![w].promise = "set"]
    /\ UNCHANGED <<bin, orch, dp, sweepVars, engVars, obsVars>>

\* Worker: dp.releaseDevice(id), and the end of the thread function.
WorkerRelease(w) ==
    /\ Running
    /\ wk[w].pc = "release"
    /\ dp' = dp \cup {wk[w].id}
    /\ wk' = [wk EXCEPT ![w].pc = "done", ![w].id = -1]
    /\ UNCHANGED <<bin, orch, sweepVars, engVars, obsVars>>

\* The caller's buffer after jac.at(first + j) = jac_rows[j] for every j
\* the buffer has a position for.
MergeRows(jac, first, rows) ==
    [p \in 1..Len(jac) |->
        IF p - 1 >= first /\ p - 1 - first < Len(rows)
        THEN rows[p - first] ELSE jac[p]]

\* One iteration of the merge loop: futures[i].get() blocks until worker i
\* has set its promise; jac.at throws std::out_of_range past the end of
\* jac, and the exception unwinds over the joinable threads, which ends
\* the process through std::terminate. After the last future the join loop
\* starts.
OrchMerge ==
    /\ orch.pc = "merge"
    /\ IF orch.i < Len(wk)
       THEN /\ wk[orch.i + 1].promise = "set"
            /\ LET first == FirstOf(Len(bin.obs), orch.i, bin.num_gpus)
                   rows == wk[orch.i + 1].jac_local
                   merged == MergeRows(orch.jac, first, rows)
               IN IF first + Len(rows) > Len(orch.jac)
                  THEN orch' = [orch EXCEPT !.pc = "terminated",
                                   !.cause = "out_of_range", !.jac = merged]
                  ELSE orch' = [orch EXCEPT !.i = @ + 1, !.jac = merged,
                                   !.merged = @ + 1]
       ELSE orch' = [orch EXCEPT !.pc = "join", !.i = 0]
    /\ UNCHANGED <<bin, wk, dp, sweepVars, engVars, obsVars>>

\* One iteration of the join loop: threads[t].join() blocks until the
\* thread function of worker t has returned; after the last join the call
\* returns.
OrchJoin ==
    /\ orch.pc = "join"
    /\ IF orch.i < Len(wk)
       THEN /\ wk[orch.i + 1].pc = "done"
            /\ orch' = [orch EXCEPT !.i = @ + 1]
       ELSE orch' = [orch EXCEPT !.pc = "returned"]
    /\ UNCHANGED <<bin, wk, dp, sweepVars, engVars, obsVars>>

InitBatch ==
    /\ call = NoCall
    /\ adj = AdjIdle
    /\ fan = NoFan
    /\ \E ops \in BatchTapes, n \in 0..MaxObs, k \in 1..MaxDevices :
         \E tp \in AscendingFrom(0, getNumParOps(ops)) :
            bin = BatchArgs(ops, tp, n, FALSE, k)
    /\ orch = BatchIdle
    /\ wk = <<>>
    /\ dp = {}
    /\ tpo = NoTensorProd
    /\ ham = NoHamiltonian
    /\ hap = NoApply
    /\ cmp = NoCompare
    /\ eng = Engine
    /\ prev = NoRun
    /\ gc = NoCache
    /\ devs = NoDevs

NextBatch ==
    \/ BatchEnter
    \/ OrchFirst
    \/ OrchLast
    \/ OrchSpawn
    \/ \E w \in 1..Len(wk) : WorkerAcquire(w)
    \/ \E w \in 1..Len(wk) : WorkerAlloc(w)
    \/ \E w \in 1..Len(wk) : WorkerSweep(w)
    \/ \E w \in 1..Len(wk) : WorkerSetValue(w)
    \/ \E w \in 1..Len(wk) : WorkerRelease(w)
    \/ OrchMerge
    \/ OrchJoin

SpecBatch == InitBatch /\ [][NextBatch]_vars

\* The calls termination is checked on: the tape the sweep accepts with
\* both parameters trainable, MaxObs observables, every number of devices.
InitBatchFair ==
    /\ call = NoCall
    /\ adj = AdjIdle
    /\ fan = NoFan
    /\ \E k \in 1..MaxDevices :
         bin = BatchArgs(<<Op("RX", 1, FALSE), Op("PhaseShift", 1, FALSE)>>,
                         <<0, 1>>, MaxObs, FALSE, k)
    /\ orch = BatchIdle
    /\ wk = <<>>
    /\ dp = {}
    /\ tpo = NoTensorProd
    /\ ham = NoHamiltonian
    /\ hap = NoApply
    /\ cmp = NoCompare
    /\ eng = Engine
    /\ prev = NoRun
    /\ gc = NoCache
    /\ devs = NoDevs

\* batchAdjointJacobian under a fair scheduler: while some thread can take
\* a step, some thread does (every thread runs a finite number of steps,
\* so no thread that can run is held back forever).
SpecBatchFair == InitBatchFair /\ [][NextBatch]_vars /\ WF_vars(NextBatch)

----------------------------------------------------------------------------
(* The observable constructors as a state machine.                         *)

InitObs ==
    /\ call = NoCall
    /\ adj = AdjIdle
    /\ fan = NoFan
    /\ bin = NoBatch
    /\ orch = BatchIdle
    /\ wk = <<>>
    /\ dp = {}
    /\ tpo = NoTensorProd
    /\ ham = NoHamiltonian
    /\ hap = NoApply
    /\ cmp = NoCompare
    /\ eng = Engine
    /\ prev = NoRun
    /\ gc = NoCache
    /\ devs = NoDevs

\* A TensorProdObsGPU constructor call (one per behaviour).
NewTensorProd ==
    /\ tpo.pc = "idle"
    /\ \E obs \in SeqsUpTo(LeafObs, MaxMembers) : tpo' = TensorProdObsGPU(obs)
    /\ UNCHANGED <<sweepVars, batchVars, engVars, ham, cmp, hap>>

NextObs == NewTensorProd

SpecObs == InitObs /\ [][NextObs]_vars

\* A HamiltonianGPU constructor call (one per behaviour).
NewHamiltonian ==
    /\ ham.pc = "idle"
    /\ \E coeffs \in CoeffLists, obs \in SeqsUpTo(CmpMembers, MaxMembers) :
         ham' = HamiltonianGPU(coeffs, obs)
    /\ UNCHANGED <<sweepVars, batchVars, engVars, tpo, cmp, hap>>

NextHam == NewHamiltonian

SpecHam == InitObs /\ [][NextHam]_vars

----------------------------------------------------------------------------
(* operator== and getObsName as a state machine.                           *)

InitCmp ==
    /\ call = NoCall
    /\ adj = AdjIdle
    /\ fan = NoFan
    /\ bin = NoBatch
    /\ orch = BatchIdle
    /\ wk = <<>>
    /\ dp = {}
    /\ tpo = NoTensorProd
    /\ ham = NoHamiltonian
    /\ hap = NoApply
    /\ \E a \in CmpObs, b \in CmpObs : cmp = Compare(a, b)
    /\ eng = Engine
    /\ prev = NoRun
    /\ gc = NoCache
    /\ devs = NoDevs

\* lhs == rhs, rhs == lhs and lhs == lhs.
CallEquals ==
    /\ cmp.pc = "idle"
    /\ cmp' = [cmp EXCEPT !.pc = "compared",
                          !.eq = operatorEq(cmp.lhs, cmp.rhs),
                          !.eqRev = operatorEq(cmp.rhs, cmp.lhs),
                          !.eqSelf = operatorEq(cmp.lhs, cmp.lhs)]
    /\ UNCHANGED <<sweepVars, batchVars, engVars, tpo, ham, hap>>

\* lhs.getObsName() and rhs.getObsName().
CallGetObsName ==
    /\ cmp.pc = "idle"
    /\ cmp' = [cmp EXCEPT !.pc = "named",
                          !.nameL = getObsName(cmp.lhs),
                          !.nameR = getObsName(cmp.rhs)]
    /\ UNCHANGED <<sweepVars, batchVars, engVars, tpo, ham, hap>>

NextCmp == CallEquals \/ CallGetObsName

SpecCmp == InitCmp /\ [][NextCmp]_vars

----------------------------------------------------------------------------
(* HamiltonianGPU::applyInPlace as a state machine.                        *)

InitApply ==
    /\ call = NoCall
    /\ adj = AdjIdle
    /\ fan = NoFan
    /\ bin = NoBatch
    /\ orch = BatchIdle
    /\ wk = <<>>
    /\ dp = {}
    /\ tpo = NoTensorProd
    /\ ham = NoHamiltonian
    /\ cmp = NoCompare
    /\ \E coeffs \in CoeffLists, obs \in SeqsUpTo(ApplyTerms, MaxMembers) :
         /\ HamiltonianGPU(coeffs, obs).pc = "constructed"
         /\ hap = ApplyCall(HamiltonianOf(coeffs, obs), RefState)
    /\ eng = Engine
    /\ prev = NoRun
    /\ gc = NoCache
    /\ devs = NoDevs

\* h_res and d_res: the accumulator, all zero.
ApplyEnter ==
    /\ hap.pc = "idle"
    /\ hap' = [hap EXCEPT !.pc = "loop", !.d_res = <<>>, !.term_idx = 0]
    /\ UNCHANGED <<sweepVars, batchVars, engVars, tpo, ham, cmp>>

\* Head of the loop over the terms and the copy tmp(sv); after the last
\* term sv.updateData(d_res).
ApplyCopy ==
    /\ hap.pc = "loop"
    /\ IF hap.term_idx < Len(hap.h.coeffs)
       THEN hap' = [hap EXCEPT !.pc = "term", !.tmp = FreshCopy(hap)]
       ELSE hap' = [hap EXCEPT !.pc = "done", !.sv = SumState(hap.d_res)]
    /\ UNCHANGED <<sweepVars, batchVars, engVars, tpo, ham, cmp>>

\* obs_[term_idx]->applyInPlace(tmp).
ApplyTerm ==
    /\ hap.pc = "term"
    /\ hap' = [hap EXCEPT !.pc = "add",
                          !.tmp = applyInPlace(hap.h.obs[hap.term_idx + 1], @)]
    /\ UNCHANGED <<sweepVars, batchVars, engVars, tpo, ham, cmp>>

\* scaleAndAddC_CUDA(coeffs_[term_idx], tmp, d_res) and term_idx++.
ApplyScaleAndAdd ==
    /\ hap.pc = "add"
    /\ hap' = [hap EXCEPT !.pc = "loop",
                          !.d_res = Append(@, [c |-> hap.h.coeffs[hap.term_idx + 1],
                                               sv |-> hap.tmp]),
                          !.term_idx = @ + 1]
    /\ UNCHANGED <<sweepVars, batchVars, engVars, tpo, ham, cmp>>

NextApply == ApplyEnter \/ ApplyCopy \/ ApplyTerm \/ ApplyScaleAndAdd

SpecApply == InitApply /\ [][NextApply]_vars

----------------------------------------------------------------------------
(* The fan-outs as a state machine.                                        *)

\* The schedules of n iterations over a team of k threads.
Owners(n, k) == [1..n -> 1..k]

InitFan ==
    /\ call = NoCall
    /\ adj = AdjIdle
    /\ \E fn \in {"applyObservables", "applyOperationsAdj"}, n \in 0..MaxObs :
         \E fails \in SUBSET (0..(n - 1)) :
            \/ fan = FanCall(fn, n, fails, "serial", FALSE, [h \in 1..n |-> 1])
            \/ \E k \in 1..MaxThreads, c \in BOOLEAN :
                  \E owner \in Owners(n, k) :
                     fan = FanCall(fn, n, fails, "openmp", c, owner)
    /\ bin = NoBatch
    /\ orch = BatchIdle
    /\ wk = <<>>
    /\ dp = {}
    /\ tpo = NoTensorProd
    /\ ham = NoHamiltonian
    /\ hap = NoApply
    /\ cmp = NoCompare
    /\ eng = Engine
    /\ prev = NoRun
    /\ gc = NoCache
    /\ devs = NoDevs

\* std::exception_ptr ex = nullptr, and the start of the loop (of the
\* parallel region when _OPENMP is defined).
FanEnter ==
    /\ fan.pc = "idle"
    /\ fan.fn # "none"
    /\ fan' = [fan EXCEPT !.pc = "run", !.ex = nullptr]
    /\ UNCHANGED <<call, adj, batchVars, engVars, obsVars>>

\* Thread t runs its next iteration: the body of the try block, and when
\* it throws the catch block.
FanTask(t) ==
    /\ fan.pc = "run"
    /\ t \notin fan.left
    /\ Pending(fan, t) # {}
    /\ LET h == CHOOSE x \in Pending(fan, t) : \A y \in Pending(fan, t) : x <= y
           ran == [fan EXCEPT !.started = @ \cup {h}]
       IN fan' = IF h \in fan.fails
                 THEN CancelFor(Catch(ran, h), t)
                 ELSE ran
    /\ UNCHANGED <<call, adj, batchVars, engVars, obsVars>>

\* Every thread has left the loop: if (ex) std::rethrow_exception(ex),
\* else the fan-out returns.
FanEnd ==
    /\ fan.pc = "run"
    /\ \A t \in 1..MaxThreads : t \in fan.left \/ Pending(fan, t) = {}
    /\ fan' = [fan EXCEPT !.pc = IF fan.ex # nullptr THEN "raised" ELSE "returned"]
    /\ UNCHANGED <<call, adj, batchVars, engVars, obsVars>>

NextFan == FanEnter \/ (\E t \in 1..MaxThreads : FanTask(t)) \/ FanEnd

SpecFan == InitFan /\ [][NextFan]_vars

----------------------------------------------------------------------------
(* The single-device sweep as a state machine.                             *)

Init ==
    /\ \E ops \in Tapes :
         \E tp \in AscendingFrom(0, getNumParOps(ops)) :
           \E n \in {1, MaxObs}, ap \in BOOLEAN :
             call = CallArgs(ops, tp, n, ap)
    /\ adj = AdjIdle
    /\ fan = NoFan
    /\ bin = NoBatch
    /\ orch = BatchIdle
    /\ wk = <<>>
    /\ dp = {}
    /\ tpo = NoTensorProd
    /\ ham = NoHamiltonian
    /\ hap = NoApply
    /\ cmp = NoCompare
    /\ eng = Engine
    /\ prev = NoRun
    /\ gc = NoCache
    /\ devs = NoDevs

Enter ==
    /\ adj.pc = "idle"
    /\ adj' = AdjEnter(call)
    /\ UNCHANGED <<call, fan, batchVars, engVars, obsVars>>

LoopStep ==
    /\ adj.pc = "loop"
    /\ adj' = AdjLoop(call, adj)
    /\ eng' = EngineAfter(call, adj)
    /\ UNCHANGED <<call, fan, prev, gc, devs, batchVars, obsVars>>

BrasStep ==
    /\ adj.pc = "bras"
    /\ adj' = AdjBras(call, adj)
    /\ UNCHANGED <<call, fan, batchVars, engVars, obsVars>>

Next == Enter \/ LoopStep \/ BrasStep

Spec == Init /\ [][Next]_vars

\* The caller repeats the call on the same object with the same arguments:
\* the locals of the finished call are gone, its outcome is kept for the
\* comparison.
CallAgain ==
    /\ adj.pc \in {"done", "error"}
    /\ prev = NoRun
    /\ prev' = [pc |-> adj.pc, err |-> adj.err, jac |-> adj.jac]
    /\ adj' = AdjIdle
    /\ UNCHANGED <<call, fan, eng, gc, devs, batchVars, obsVars>>

NextTwice == Enter \/ LoopStep \/ BrasStep \/ CallAgain

SpecTwice == Init /\ [][NextTwice]_vars

\* The caller calls one of the two entrypoints: adjointJacobian on any of
\* the calls of Init, or batchAdjointJacobian on the tape the sweep accepts
\* with both parameters trainable, any number of observables and devices.
InitEither ==
    \/ Init
    \/ /\ call = NoCall
       /\ adj = AdjIdle
       /\ fan = NoFan
       /\ \E n \in 0..MaxObs, k \in 1..MaxDevices :
            bin = BatchArgs(<<Op("RX", 1, FALSE), Op("PhaseShift", 1, FALSE)>>,
                            <<0, 1>>, n, FALSE, k)
       /\ orch = BatchIdle
       /\ wk = <<>>
       /\ dp = {}
       /\ tpo = NoTensorProd
       /\ ham = NoHamiltonian
       /\ hap = NoApply
       /\ cmp = NoCompare
       /\ eng = Engine
       /\ prev = NoRun
       /\ gc = NoCache
       /\ devs = NoDevs

NextEither == (bin = NoBatch /\ Next) \/ NextBatch

SpecEither == InitEither /\ [][NextEither]_vars

----------------------------------------------------------------------------
(* The gate cache as a state machine: a constructed cache and the calls    *)
(* its users make on it.                                                   *)

InitCache ==
    /\ call = NoCall
    /\ adj = AdjIdle
    /\ fan = NoFan
    /\ bin = NoBatch
    /\ orch = BatchIdle
    /\ wk = <<>>
    /\ dp = {}
    /\ tpo = NoTensorProd
    /\ ham = NoHamiltonian
    /\ hap = NoApply
    /\ cmp = NoCompare
    /\ eng = Engine
    /\ prev = NoRun
    /\ \E populate \in BOOLEAN : gc = NewCache(populate)
    /\ devs = NoDevs

CallAddGate ==
    /\ gc.pc = "constructed"
    /\ gc.ncalls < MaxCalls
    /\ \E k \in GateKeys, d \in HostVectors, byName \in BOOLEAN :
         gc' = [gc EXCEPT
                  !.cache = IF byName
                            THEN add_gateByName(@, k.name, k.param, d)
                            ELSE add_gate(@, k, d),
                  !.ncalls = @ + 1,
                  !.last = [op |-> "add_gate", key |-> k, data |-> d,
                            ret |-> <<>>, found |-> FALSE],
                  !.inserted = @ \cup {k}]
    /\ UNCHANGED <<sweepVars, batchVars, obsVars, eng, prev, devs>>

CallGateExists ==
    /\ gc.pc = "constructed"
    /\ gc.ncalls < MaxCalls
    /\ \E k \in GateKeys, byName \in BOOLEAN :
         gc' = [gc EXCEPT
                  !.ncalls = @ + 1,
                  !.last = [op |-> "gateExists", key |-> k, data |-> <<>>,
                            ret |-> <<>>,
                            found |-> IF byName
                                      THEN gateExistsByName(gc.cache, k.name,
                                                            k.param)
                                      ELSE gateExists(gc.cache, k)]]
    /\ UNCHANGED <<sweepVars, batchVars, obsVars, eng, prev, devs>>

CallGetGateDevicePtr ==
    /\ gc.pc = "constructed"
    /\ gc.ncalls < MaxCalls
    /\ \E k \in GateKeys :
         LET r == get_gate_device_ptr(gc.cache, k)
         IN gc' = [gc EXCEPT
                     !.cache = r.cache,
                     !.ncalls = @ + 1,
                     !.last = [op |-> "get_gate_device_ptr", key |-> k,
                               data |-> <<>>, ret |-> r.ret,
                               found |-> FALSE]]
    /\ UNCHANGED <<sweepVars, batchVars, obsVars, eng, prev, devs>>

CallGetGateHost ==
    /\ gc.pc = "constructed"
    /\ gc.ncalls < MaxCalls
    /\ \E k \in GateKeys :
         LET r == get_gate_host(gc.cache, k)
         IN gc' = [gc EXCEPT
                     !.cache = r.cache,
                     !.ncalls = @ + 1,
                     !.last = [op |-> "get_gate_host", key |-> k,
                               data |-> <<>>, ret |-> r.ret,
                               found |-> FALSE]]
    /\ UNCHANGED <<sweepVars, batchVars, obsVars, eng, prev, devs>>

NextCache ==
    CallAddGate \/ CallGateExists \/ CallGetGateDevicePtr \/ CallGetGateHost

SpecCache == InitCache /\ [][NextCache]_vars

----------------------------------------------------------------------------
(* The devices of the state copies of a sweep as a state machine.          *)

InitDevices ==
    /\ call = NoCall
    /\ adj = AdjIdle
    /\ fan = NoFan
    /\ bin = NoBatch
    /\ orch = BatchIdle
    /\ wk = <<>>
    /\ dp = {}
    /\ tpo = NoTensorProd
    /\ ham = NoHamiltonian
    /\ hap = NoApply
    /\ cmp = NoCompare
    /\ eng = Engine
    /\ prev = NoRun
    /\ gc = NoCache
    /\ \E d \in Devices, obs \in SeqsUpTo(SweepObs, MaxObs) :
         obs # <<>> /\ devs = SweepOn(d, obs)

\* dt_local(dev_tag), lambda(ref_data, length, dt_local) and one
\* H_lambda.emplace_back(lambda.getNumQubits(), dt_local) per observable.
DevPrelude ==
    /\ devs.pc = "idle"
    /\ devs' = [devs EXCEPT
                  !.pc = "observables",
                  !.lambda = devs.d,
                  !.H_lambda = [j \in 1..Len(devs.obs) |-> devs.d],
                  !.i = 0,
                  !.log = @ \o <<Created("lambda", devs.d)>>
                            \o [j \in 1..Len(devs.obs) |->
                                  Created("H_lambda", devs.d)]]
    /\ UNCHANGED <<sweepVars, batchVars, obsVars, eng, prev, gc>>

\* applyObservables, observable i: states[i].updateData(reference_state)
\* and obs[i]->applyInPlace(states[i]).
DevApplyObservable ==
    /\ devs.pc = "observables"
    /\ devs' = [devs EXCEPT
                  !.pc = IF devs.i + 1 < Len(devs.obs)
                         THEN "observables" ELSE "mu",
                  !.i = @ + 1,
                  !.log = @ \o <<Binary("updateData",
                                        devs.H_lambda[devs.i + 1],
                                        devs.lambda)>>
                            \o applyInPlaceOn(devs.obs[devs.i + 1],
                                              devs.H_lambda[devs.i + 1])]
    /\ UNCHANGED <<sweepVars, batchVars, obsVars, eng, prev, gc>>

\* mu(lambda.getNumQubits(), dt_local) and, at a trainable operation,
\* mu.updateData(lambda).
DevCreateMu ==
    /\ devs.pc = "mu"
    /\ devs' = [devs EXCEPT
                  !.pc = "update",
                  !.mu = devs.d,
                  !.i = 0,
                  !.log = @ \o <<Created("mu", devs.d),
                                 Binary("updateData", devs.d, devs.lambda)>>]
    /\ UNCHANGED <<sweepVars, batchVars, obsVars, eng, prev, gc>>

\* updateJacobian(H_lambda[i], mu, ...): the abort when the two states are
\* on different devices, else the inner product.
DevUpdateJacobian ==
    /\ devs.pc = "update"
    /\ IF devs.H_lambda[devs.i + 1] # devs.mu
       THEN devs' = [devs EXCEPT
                       !.pc = "error",
                       !.err = "Data exists on different GPUs. Aborting."]
       ELSE devs' = [devs EXCEPT
                       !.pc = IF devs.i + 1 < Len(devs.obs)
                              THEN "update" ELSE "done",
                       !.i = @ + 1,
                       !.log = Append(@, Binary("innerProdC_CUDA",
                                                devs.H_lambda[devs.i + 1],
                                                devs.mu))]
    /\ UNCHANGED <<sweepVars, batchVars, obsVars, eng, prev, gc>>

NextDevices ==
    DevPrelude \/ DevApplyObservable \/ DevCreateMu \/ DevUpdateJacobian

SpecDevices == InitDevices /\ [][NextDevices]_vars

----------------------------------------------------------------------------
(* Claims about batchAdjointJacobian (checked under SpecBatch).            *)

\* What the single-device adjointJacobian leaves in the caller's buffer
\* for the arguments of the batched call.
SingleDeviceJac ==
    adjointJacobian([ops |-> bin.ops, trainableParams |-> bin.trainableParams,
                     obs |-> bin.obs, apply_operations |-> bin.apply_operations,
                     jac |-> bin.jac]).jac

\* C1: when batchAdjointJacobian returns, every position i * tp_size + col
\* of the caller's buffer holds the entry the single-device adjointJacobian
\* writes there for the same inputs.
C1_BatchEqualsSingleDevice ==
    orch.pc = "returned" =>
        \A p \in 1..Len(bin.jac) : orch.jac[p] = SingleDeviceJac[p]

\* The thread function of worker w has ended: it returned, or the exception
\* of a failed sweep left it.
WorkerEnded(w) ==
    \/ wk[w].pc = "done"
    \/ wk[w].pc = "uncaught" /\ wk[w].res.pc = "error"

\* C2: a shard worker that has acquired a device and has ended, normally or
\* because its sweep failed, holds the device no longer.
C2_DeviceReleasedOnEveryExit ==
    \A w \in 1..Len(wk) : WorkerEnded(w) => wk[w].id = -1

\* The observables the slice {obs.begin() + first, obs.begin() + last + 1}
\* of a shard range spans.
Covered(r) ==
    {g \in 0..(Len(bin.obs) - 1) : r.first <= g /\ g < Wrap(r.last + 1)}

\* The number of entries of the jac_local sized from a shard range.
BlockSize(r) == Wrap(Wrap(r.last - r.first + 1) * Len(bin.trainableParams))

\* C3: once the submission loop has computed the range of every shard, the
\* ranges are contiguous, every observable index of [0, n) lies in exactly
\* one of them, and an empty shard covers no observable and has a block of
\* zero entries.
C3_ShardRangesPartition ==
    Len(orch.ranges) = bin.num_gpus =>
        /\ \A g \in 0..(Len(bin.obs) - 1) :
              Cardinality({i \in 1..Len(orch.ranges) : g \in Covered(orch.ranges[i])}) = 1
        /\ \A i \in 1..(Len(orch.ranges) - 1) :
              orch.ranges[i + 1].first = Wrap(orch.ranges[i].last + 1)
        /\ \A i \in 1..Len(orch.ranges) :
              BlockSize(orch.ranges[i])
                  = Cardinality(Covered(orch.ranges[i])) * Len(bin.trainableParams)

\* C4: worker i sizes its block from, and runs the sweep on, the range
\* [first_i, last_i] the submission loop computed for shard i.
C4_WorkerUsesOwnRange ==
    \A w \in 1..Len(wk) :
        /\ wk[w].reads >= 1 =>
              /\ wk[w].sizeFirst = orch.ranges[w].first
              /\ wk[w].sizeLast = orch.ranges[w].last
        /\ wk[w].reads >= 2 =>
              /\ wk[w].sliceFirst = orch.ranges[w].first
              /\ wk[w].sliceLast = orch.ranges[w].last

\* C7: an argument error (empty trainable list, operation with more than
\* one parameter) is raised before a device is acquired, before a state
\* copy exists and before a Jacobian entry is written, in the batched and
\* in the single-device entrypoint.
C7_ArgumentErrorBeforeAnyWork ==
    /\ \A w \in 1..Len(wk) :
          wk[w].res.err \in {"InvalidArgument", "UnsupportedOperation"} =>
              /\ wk[w].id = -1
              /\ ~wk[w].res.created
              /\ wk[w].res.writes = 0
    /\ adj.err \in {"InvalidArgument", "UnsupportedOperation"} =>
          /\ adj.lambda = NoState
          /\ adj.wlog = <<>>

\* C8: when the sweep of a shard worker has failed, the failure is held
\* for that worker: it has not left the thread function uncaught, the
\* process has not been ended by it, and batchAdjointJacobian has not
\* returned normally.
C8_WorkerFailureCaptured ==
    \A w \in 1..Len(wk) :
        wk[w].res.pc = "error" =>
            /\ wk[w].pc # "uncaught"
            /\ orch.pc \notin {"terminated", "returned"}

----------------------------------------------------------------------------
(* Claims about adjointJacobian (checked under Spec).                      *)

\* C5: a call with an empty trainable-parameter list fails with the
\* invalid-argument error and no entry of the caller's buffer changes.
C5_EmptyTrainableFails ==
    (call.trainableParams = <<>> /\ adj.pc # "idle") =>
        /\ adj.pc = "error"
        /\ adj.err = "InvalidArgument"
        /\ adj.jac = call.jac
        /\ adj.wlog = <<>>

C5_Witness ==
    /\ call.trainableParams = <<>>
    /\ adj.pc = "error"
    /\ Len(adj.jac) > 0

\* C6: when some operation of the tape carries more than one parameter and
\* the trainable list is not empty, the call ends with an
\* unsupported-operation error.
C6_MultiParamAlwaysFails ==
    ( /\ \E k \in 1..Len(call.ops) : call.ops[k].params > 1
      /\ call.trainableParams # <<>>
      /\ adj.pc \in {"done", "error"} )
    => /\ adj.pc = "error"
       /\ adj.err \in {"UnsupportedOperation", "UnknownGenerator"}

\* The number of parametric operations before tape position k.
ParOpsBefore(ops, k) == Cardinality({j \in 1..k : ops[j].params > 0})

\* C9: every Jacobian column col is written while the walk is at the
\* trainableParams[col]-th parametric operation of the tape, and whenever
\* the walk is about to examine a parametric operation current_param_idx
\* is the number of parametric operations before it.
C9_CounterIsForwardPosition ==
    /\ \A k \in 1..Len(adj.wlog) :
          ParOpsBefore(call.ops, adj.wlog[k].op)
              = call.trainableParams[adj.wlog[k].col + 1]
    /\ ( /\ adj.pc = "loop"
         /\ adj.op_idx >= 0
         /\ adj.tpPos < Len(call.trainableParams)
         /\ call.ops[adj.op_idx + 1].params = 1
         /\ ~IsStatePrep(call.ops[adj.op_idx + 1].name) )
       => adj.current_param_idx = ParOpsBefore(call.ops, adj.op_idx)

----------------------------------------------------------------------------
(* Claims about the observable classes (checked under SpecObs).            *)

\* Two different members of the tensor product share a wire.
MembersShareWire(obs) ==
    \E a, b \in 1..Len(obs) :
        /\ a # b
        /\ \E i \in 1..Len(obs[a].wires), j \in 1..Len(obs[b].wires) :
              obs[a].wires[i] = obs[b].wires[j]

\* The wire list of one member names a wire twice.
MemberRepeatsWire(obs) ==
    \E a \in 1..Len(obs) :
        \E i, j \in 1..Len(obs[a].wires) :
            i # j /\ obs[a].wires[i] = obs[a].wires[j]

\* C10 (as claimed): the constructor of a tensor product aborts if and only
\* if two different members share a wire.
C10_AbortsIffMembersShareWire ==
    tpo.pc # "idle" => (tpo.pc = "aborted" <=> MembersShareWire(tpo.obs))

\* C10 (amended): the constructor of a tensor product aborts if and only if
\* two different members share a wire or the wire list of one member names
\* a wire twice; otherwise it constructs the object.
C10_AbortsIffWireRepeats ==
    tpo.pc # "idle" =>
        /\ tpo.pc = "aborted"
              <=> (MembersShareWire(tpo.obs) \/ MemberRepeatsWire(tpo.obs))
        /\ tpo.pc \in {"aborted", "constructed"}

C10_Witness ==
    /\ tpo.pc = "aborted"
    /\ ~MembersShareWire(tpo.obs)
    /\ MemberRepeatsWire(tpo.obs)

\* The wires of the members of a tensor product, as a set.
UnionOfMemberWires(obs) ==
    UNION {{obs[k].wires[i] : i \in 1..Len(obs[k].wires)} : k \in 1..Len(obs)}

----------------------------------------------------------------------------
(* Claims about HamiltonianGPU (checked under SpecHam).                    *)

\* C12: the constructor of a Hamiltonian aborts whenever the number of
\* coefficients differs from the number of terms, and only then, so every
\* Hamiltonian that exists has as many coefficients as terms.
C12_MismatchedLengthsAbort ==
    ham.pc # "idle" =>
        /\ Len(ham.coeffs) # Len(ham.obs) => ham.pc = "aborted"
        /\ ham.pc = "constructed" => Len(ham.coeffs) = Len(ham.obs)
        /\ Len(ham.coeffs) = Len(ham.obs) => ham.pc = "constructed"

C12_Witness ==
    /\ ham.pc = "aborted"
    /\ Len(ham.coeffs) = 2
    /\ Len(ham.obs) = 1

----------------------------------------------------------------------------
(* Claims about operator== and getObsName (checked under SpecCmp).         *)

\* Some floating-point field of the observable, or of one of its members
\* or terms, holds NaN.
RECURSIVE HasNaN(_)
HasNaN(ob) ==
    CASE ob.variant = "Named" -> \E i \in 1..Len(ob.params) : ob.params[i].nan
      [] ob.variant = "Hermitian" -> \E i \in 1..Len(ob.matrix) : ob.matrix[i].nan
      [] ob.variant = "TensorProd" -> \E i \in 1..Len(ob.obs) : HasNaN(ob.obs[i])
      [] ob.variant = "Hamiltonian" ->
            \/ \E i \in 1..Len(ob.coeffs) : ob.coeffs[i].nan
            \/ \E i \in 1..Len(ob.obs) : HasNaN(ob.obs[i])

\* C13 (as claimed): operator== returns true if and only if the operands
\* are of the same variant and hold the same fields, recursively; operands
\* of different variants are unequal; the relation is reflexive and
\* symmetric.
C13_EqualIffSameFields ==
    cmp.pc = "compared" =>
        /\ cmp.eq <=> (cmp.lhs = cmp.rhs)
        /\ cmp.lhs.variant # cmp.rhs.variant => ~cmp.eq
        /\ cmp.eqSelf
        /\ cmp.eq <=> cmp.eqRev

\* C13 (amended): as claimed for operands without NaN; operands of
\* different variants are unequal and the relation is symmetric for all
\* operands; equal operands always hold the same fields; an operand that
\* holds NaN is unequal to itself.
C13_EqualIffSameFieldsWithoutNaN ==
    cmp.pc = "compared" =>
        /\ (~HasNaN(cmp.lhs) /\ ~HasNaN(cmp.rhs)) =>
              (cmp.eq <=> (cmp.lhs = cmp.rhs))
        /\ cmp.eq => cmp.lhs = cmp.rhs
        /\ cmp.lhs.variant # cmp.rhs.variant => ~cmp.eq
        /\ cmp.eqSelf <=> ~HasNaN(cmp.lhs)
        /\ cmp.eq <=> cmp.eqRev

C13_Witness ==
    /\ cmp.pc = "compared"
    /\ cmp.lhs.variant = "Hamiltonian"
    /\ cmp.lhs = cmp.rhs
    /\ HasNaN(cmp.lhs)
    /\ ~cmp.eq

\* Two observables of the same variant that differ in their wires and in
\* nothing else (for a tensor product or a Hamiltonian: in the wires of
\* some members or terms).
RECURSIVE DifferOnlyInWires(_, _)
DifferOnlyInWires(a, b) ==
    /\ a.variant = b.variant
    /\ CASE a.variant = "Named" ->
               a.name = b.name /\ a.params = b.params /\ a.wires # b.wires
         [] a.variant = "Hermitian" ->
               a.matrix = b.matrix /\ a.wires # b.wires
         [] a.variant = "TensorProd" ->
               /\ Len(a.obs) = Len(b.obs)
               /\ \A i \in 1..Len(a.obs) :
                     a.obs[i] = b.obs[i] \/ DifferOnlyInWires(a.obs[i], b.obs[i])
               /\ \E i \in 1..Len(a.obs) : DifferOnlyInWires(a.obs[i], b.obs[i])
         [] a.variant = "Hamiltonian" ->
               /\ a.coeffs = b.coeffs
               /\ Len(a.obs) = Len(b.obs)
               /\ \A i \in 1..Len(a.obs) :
                     a.obs[i] = b.obs[i] \/ DifferOnlyInWires(a.obs[i], b.obs[i])
               /\ \E i \in 1..Len(a.obs) : DifferOnlyInWires(a.obs[i], b.obs[i])

\* C14: two observables of the same variant that differ only in their
\* wires have different names.
C14_NameIncludesWires ==
    (cmp.pc = "named" /\ DifferOnlyInWires(cmp.lhs, cmp.rhs)) =>
        cmp.nameL # cmp.nameR

----------------------------------------------------------------------------
(* Further claims about adjointJacobian (checked under Spec and, for two   *)
(* successive calls, under SpecTwice).                                     *)

\* C15: when the reverse walk reaches a one-parameter operation at the
\* pending trainable position whose name has no entry in the generator
\* registry, the call fails with the error of the registry lookup and the
\* caller's buffer is as before the step: no entry of the pending column
\* is written.
C15_UnregisteredNameFails ==
    [][ ( /\ AtPendingTrainable(call, adj)
          /\ call.ops[adj.op_idx + 1].name \notin generator_names )
        => /\ adj'.pc = "error"
           /\ adj'.err = "UnknownGenerator"
           /\ adj'.jac = adj.jac
           /\ adj'.wlog = adj.wlog ]_vars

C15_Witness ==
    /\ adj.pc = "error"
    /\ adj.err = "UnknownGenerator"
    /\ Len(adj.wlog) = 1
    /\ \A o \in 0..(Len(call.obs) - 1) :
          adj.jac[getJacIndex(o, adj.trainableParamNumber,
                              Len(call.trainableParams)) + 1] = Prior

C19_ColumnsDescending ==
    \A k \in 1..Len(adj.wlog) :
        LET col == adj.wlog[k].col
            entry(o) == adj.jac[getJacIndex(o, col, Len(call.trainableParams)) + 1]
        IN /\ col = Len(call.trainableParams) - k
           /\ k > 1 => adj.wlog[k].op < adj.wlog[k - 1].op
           /\ \A o \in 0..(Len(call.obs) - 1) :
                 /\ entry(o) # Prior
                 /\ entry(o).ket = entry(0).ket

C19_Witness ==
    /\ Len(adj.wlog) = 3
    /\ Len(call.obs) = 2
    /\ adj.pc = "done"

\* The state the walk starts from: the reference state, with the tape
\* applied when apply_operations is set.
Lambda0(c) ==
    IF c.apply_operations THEN applyOperations(RefState, c.ops) ELSE RefState

\* sv with the operations from, from - 1, ..., k of the tape undone in
\* that order; with skipPrep the state-preparation operations among them
\* are left out.
RECURSIVE UndoneDownTo(_, _, _, _, _)
UndoneDownTo(sv, ops, from, k, skipPrep) ==
    IF from < k THEN sv
    ELSE UndoneDownTo(IF skipPrep /\ IsStatePrep(ops[from + 1].name)
                      THEN sv ELSE applyOperationAdj(sv, ops, from),
                      ops, from - 1, k, skipPrep)

\* The walk has just written the column of operation adj.op_idx.
JustWritten ==
    /\ adj.pc = "bras"
    /\ adj.wlog # <<>>
    /\ adj.wlog[Len(adj.wlog)].op = adj.op_idx

\* The iteration that wrote the column of operation adj.op_idx + 1 has
\* ended.
StepAfterWriteEnded ==
    /\ adj.pc = "loop"
    /\ adj.wlog # <<>>
    /\ adj.wlog[Len(adj.wlog)].op = adj.op_idx + 1

\* The states of the copies when the column of operation k is written, and
\* the bras after that iteration.
CopiesAtWrite(skipPrep) ==
    LET last == Len(call.ops) - 1
        k == adj.op_idx
        bra0(o) == applyObservable(Lambda0(call), call.obs[o + 1])
    IN /\ JustWritten =>
             /\ adj.lambda = UndoneDownTo(Lambda0(call), call.ops, last, k, skipPrep)
             /\ adj.mu = applyGeneratorOn(
                             UndoneDownTo(Lambda0(call), call.ops, last, k + 1, skipPrep),
                             k, ~call.ops[k + 1].inverse)
             /\ \A o \in 0..(Len(call.obs) - 1) :
                   adj.H_lambda[o + 1]
                       = UndoneDownTo(bra0(o), call.ops, last, k + 1, skipPrep)
       /\ StepAfterWriteEnded =>
             \A o \in 0..(Len(call.obs) - 1) :
                 adj.H_lambda[o + 1]
                     = UndoneDownTo(bra0(o), call.ops, last, k + 1, skipPrep)

\* C20 (as claimed): when the entries of operation k are written the ket
\* has had operations k, ..., last undone, the scratch bra is the generator
\* of operation k applied to the ket with operations k + 1, ..., last
\* undone, every bra has had operations k + 1, ..., last undone; after the
\* step every bra has operation k undone as well.
C20_AllLaterOperationsUndone == CopiesAtWrite(FALSE)

\* C20 (amended): the same with the state-preparation operations
\* (QubitStateVector, BasisState) among k + 1, ..., last left out: the walk
\* skips them and undoes them on no copy.
C20_LaterOperationsButStatePrepUndone == CopiesAtWrite(TRUE)

C20_Witness ==
    /\ JustWritten
    /\ Len(call.obs) = 2
    /\ \E j \in (adj.op_idx + 2)..Len(call.ops) : IsStatePrep(call.ops[j].name)

----------------------------------------------------------------------------
(* Termination of batchAdjointJacobian (checked under SpecBatchFair).      *)

\* A thread has failed: an exception left the thread function of a worker,
\* a worker ran into undefined behaviour, or an exception of the merge loop
\* left batchAdjointJacobian; each ends the process.
ThreadFailed ==
    \/ \E w \in 1..Len(wk) : wk[w].pc \in {"uncaught", "crashed"}
    \/ orch.pc = "terminated"

\* batchAdjointJacobian has returned, every worker has acquired a device,
\* finished its sweep, released the device and been joined, and the pool
\* holds every device again.
AllJoined ==
    /\ orch.pc = "returned"
    /\ Len(wk) = bin.num_gpus
    /\ \A w \in 1..Len(wk) :
          /\ wk[w].pc = "done"
          /\ wk[w].res.pc = "done"
          /\ wk[w].promise = "set"
          /\ wk[w].id = -1
    /\ dp = 0..(bin.num_gpus - 1)

\* C17: under fair scheduling, unless a thread fails, every worker
\* eventually acquires a device, finishes its sweep and releases the
\* device, and the call eventually returns with every worker joined.
C17_BatchTerminates == ([]~ThreadFailed) => <>AllJoined

C17_Witness ==
    /\ AllJoined
    /\ bin.num_gpus = MaxDevices
    /\ Len(bin.obs) = MaxObs
    /\ \A w \in 1..Len(wk) : wk[w].res.writes = Len(bin.trainableParams)

----------------------------------------------------------------------------
(* The steps of the reverse walk (checked under Spec).                     *)

\* The walk is about to examine an operation named QubitStateVector or
\* BasisState.
AtStatePrep ==
    /\ adj.pc = "loop"
    /\ adj.op_idx >= 0
    /\ call.ops[adj.op_idx + 1].name \in {"QubitStateVector", "BasisState"}

\* The step that only moves the walk to the operation before: the copies,
\* the buffer, the counters, the cursor and the object are as they were.
OnlyCursorMoves ==
    /\ adj' = [adj EXCEPT !.op_idx = @ - 1]
    /\ eng' = eng

\* C21 (as claimed): the step at a state-preparation operation, whatever
\* parameters it carries, only moves the walk on: nothing is undone, no
\* generator is applied, no entry is written, no counter or cursor changes
\* and no error is raised.
C21_StatePrepSkipped == [][AtStatePrep => OnlyCursorMoves]_vars

\* C21 (amended): so it is for a state-preparation operation that carries
\* at most one parameter; for one that carries more the call fails with
\* the unsupported-operation error, and nothing else changes.
C21_StatePrepOfOneParameterSkipped ==
    [][AtStatePrep =>
          IF call.ops[adj.op_idx + 1].params > 1
          THEN /\ adj' = [adj EXCEPT !.pc = "error",
                                     !.err = "UnsupportedOperation"]
               /\ eng' = eng
          ELSE OnlyCursorMoves]_vars

C21_Witness ==
    /\ adj.pc = "loop"
    /\ adj.op_idx = Len(call.ops) - 2
    /\ adj.op_idx >= 0
    /\ call.ops[Len(call.ops)] = Op("BasisState", 1, FALSE)
    /\ adj.current_param_idx = Wrap(getNumParOps(call.ops) - 1)
    /\ adj.lambda = Lambda0(call)
    /\ Len(adj.H_lambda) = 2
    /\ adj.wlog = <<>>

\* The column of the lowest trainable index has been written and the
\* iteration that wrote it has ended.
CursorExhausted ==
    /\ adj.pc = "loop"
    /\ call.trainableParams # <<>>
    /\ adj.tpPos = Len(call.trainableParams)

\* C22: once the column of the lowest trainable index has been written and
\* its operation undone on the bras, no step undoes an operation on the ket
\* or on a bra, applies a generator to the scratch bra or writes an entry:
\* the walk only passes state-preparation operations, ends, or fails on an
\* operation with more than one parameter.
C22_WalkStopsAfterLowestColumn ==
    [][CursorExhausted =>
          /\ adj'.lambda = adj.lambda
          /\ adj'.mu = adj.mu
          /\ adj'.H_lambda = adj.H_lambda
          /\ adj'.jac = adj.jac
          /\ adj'.wlog = adj.wlog
          /\ adj'.tpPos = adj.tpPos
          /\ adj'.pc \in {"loop", "done", "error"}]_vars

C22_Witness ==
    /\ adj.pc = "done"
    /\ adj.tpPos = Len(call.trainableParams)
    /\ adj.wlog # <<>>
    /\ adj.wlog[Len(adj.wlog)].op >= 1
    /\ adj.op_idx = adj.wlog[Len(adj.wlog)].op - 1
    /\ call.ops[adj.op_idx + 1].params = 0
    /\ Len(call.obs) = 2

\* The walk is about to examine an operation with p parameters that it
\* neither skips nor stops at.
WalkedAt(p) ==
    /\ adj.pc = "loop"
    /\ adj.op_idx >= 0
    /\ call.ops[adj.op_idx + 1].params = p
    /\ call.ops[adj.op_idx + 1].name \notin {"QubitStateVector", "BasisState"}
    /\ adj.tpPos < Len(call.trainableParams)

\* The copy sv with the operation under the walk undone.
UndoneOn(sv) == applyOp(sv, adj.op_idx, ~call.ops[adj.op_idx + 1].inverse)

\* The second half of the iteration at an operation with p parameters:
\* the operation is undone on every bra and the walk moves on.
BrasUndone(p) ==
    (adj.pc = "bras" /\ call.ops[adj.op_idx + 1].params = p) =>
        adj' = [adj EXCEPT !.pc = "loop",
                           !.H_lambda = [n \in 1..Len(adj.H_lambda) |->
                                            UndoneOn(adj.H_lambda[n])],
                           !.op_idx = @ - 1]

\* C23 (as claimed): the iteration at a walked operation with zero
\* parameters undoes the operation on the ket and on every bra and changes
\* nothing else (no entry, no counter, no cursor, no other copy).
C23_ZeroParamOnlyUndone ==
    [][ /\ WalkedAt(0) =>
              /\ adj' = [adj EXCEPT !.pc = "bras", !.lambda = UndoneOn(@)]
              /\ eng' = eng
        /\ BrasUndone(0) ]_vars

\* C23 (amended): the iteration also overwrites the scratch bra with the
\* ket as it was before the undo; no generator is applied to it, no entry
\* is written and the three counters keep their values.
C23_ZeroParamUndoneAndScratchOverwritten ==
    [][ /\ WalkedAt(0) =>
              /\ adj' = [adj EXCEPT !.pc = "bras", !.lambda = UndoneOn(@),
                                    !.mu = adj.lambda]
              /\ eng' = eng
        /\ BrasUndone(0) ]_vars

C23_Witness ==
    /\ adj.pc = "loop"
    /\ adj.op_idx = Len(call.ops) - 2
    /\ adj.op_idx >= 0
    /\ call.ops[Len(call.ops)].params = 0
    /\ adj.lambda = applyOp(Lambda0(call), Len(call.ops) - 1, TRUE)
    /\ adj.mu = Lambda0(call)
    /\ Len(adj.H_lambda) = 2
    /\ adj.H_lambda[2] = applyOp(applyObservable(Lambda0(call), call.obs[2]),
                                 Len(call.ops) - 1, TRUE)
    /\ adj.current_param_idx = Wrap(getNumParOps(call.ops) - 1)
    /\ adj.trainableParamNumber = Len(call.trainableParams) - 1
    /\ adj.tpPos = 0
    /\ adj.wlog = <<>>

C25_GeneratorFlagAndCoefficient ==
    JustWritten =>
        LET op == call.ops[adj.op_idx + 1]
            col == adj.wlog[Len(adj.wlog)].col
            entry(o) == adj.jac[getJacIndex(o, col, Len(call.trainableParams)) + 1]
        IN /\ adj.mu.hist # <<>>
           /\ adj.mu.hist[Len(adj.mu.hist)]
                 = [kind |-> "gen", idx |-> adj.op_idx, flag |-> ~op.inverse]
           /\ \A o \in 0..(Len(call.obs) - 1) :
                 /\ entry(o).c = IF op.inverse THEN 0 - scaling_factors(op.name)
                                 ELSE scaling_factors(op.name)
                 /\ entry(o).ket = adj.mu

C25_Witness ==
    /\ JustWritten
    /\ call.ops[adj.op_idx + 1].inverse
    /\ Len(call.obs) = 2
    /\ adj.jac[getJacIndex(1, adj.wlog[Len(adj.wlog)].col,
                           Len(call.trainableParams)) + 1].c = 1
    /\ \E k \in 1..Len(adj.wlog) : ~call.ops[adj.wlog[k].op + 1].inverse

----------------------------------------------------------------------------
(* Claims about HamiltonianGPU::applyInPlace (checked under SpecApply).    *)

\* C26: every term is applied to a copy of the state the caller passed,
\* the caller's state is as passed until the write-back, and the state
\* written back is the sum over the terms, in order, of coefficient * (term
\* applied to the state passed); without terms it is the zero state.
C26_SumOfTermsOnFreshCopies ==
    LET h == hap.h
        term(i) == [c |-> h.coeffs[i], sv |-> applyInPlace(h.obs[i], hap.input)]
    IN /\ hap.pc # "done" => hap.sv = hap.input
       /\ hap.pc = "term" => hap.tmp = hap.input
       /\ hap.pc = "add" =>
             hap.tmp = applyInPlace(h.obs[hap.term_idx + 1], hap.input)
       /\ hap.pc \in {"loop", "term", "add"} =>
             hap.d_res = [i \in 1..hap.term_idx |-> term(i)]
       /\ hap.pc = "done" =>
             /\ hap.sv = SumState([i \in 1..Len(h.coeffs) |-> term(i)])
             /\ Len(h.coeffs) = 0 => hap.sv = SumState(<<>>)

C26_Witness ==
    /\ hap.pc = "done"
    /\ Len(hap.h.coeffs) = 2
    /\ hap.h.coeffs[1] # hap.h.coeffs[2]
    /\ hap.h.obs[1].variant = "TensorProd"
    /\ hap.h.obs[2].variant = "Hamiltonian"
    /\ Len(hap.sv.terms) = 2
    /\ hap.sv.terms[2].sv.base = "sum"
    /\ Len(hap.sv.terms[1].sv.hist) = 2

----------------------------------------------------------------------------
(* Further claims about batchAdjointJacobian (checked under SpecBatch).    *)

\* C27: the merge writes no entry of the caller's buffer before every
\* shard worker has finished its sweep and handed over its block, and it
\* merges the blocks in ascending shard order (shards 0 .. i - 1 are merged
\* when it turns to shard i).
C27_MergeAfterAllWorkers ==
    /\ (orch.pc # "idle" /\ orch.jac # bin.jac) =>
          \A w \in 1..Len(wk) : wk[w].promise = "set"
    /\ orch.pc = "merge" => orch.merged = orch.i

----------------------------------------------------------------------------
(* Claims about the per-observable fan-outs (checked under SpecFan).       *)

\* C28: when a fan-out has ended and some task failed, it did not return
\* normally, and the error it re-raised is the one captured first.
C28_FirstCapturedErrorRaised ==
    (fan.pc \in {"raised", "returned"} /\ fan.captured # <<>>) =>
        /\ fan.pc = "raised"
        /\ fan.ex = fan.captured[1]

\* C29: once the failure of a task has been captured, no task that has not
\* started yet is started.
C29_NoTaskStartsAfterCapture ==
    [][fan.captured # <<>> => fan'.started = fan.started]_vars

----------------------------------------------------------------------------
(* The caller's buffer under both entrypoints (checked under SpecEither).  *)

\* The positions (1-based) at which the buffer differs from what the
\* caller passed.
Written(jac, before) == {p \in 1..Len(jac) : jac[p] # before[p]}

\* C30: under either entrypoint the caller's buffer keeps its length and
\* no write falls outside it; adjointJacobian has written only positions
\* obs_index * tp_size + col of the columns it has written, with
\* obs_index < num_observables and col < tp_size; the merge of
\* batchAdjointJacobian has written only positions below
\* num_observables * tp_size.
C30_WritesInsideBuffer ==
    /\ adj.pc # "idle" =>
          LET tp_size == Len(call.trainableParams)
          IN /\ Len(adj.jac) = Len(call.jac)
             /\ ~adj.oob
             /\ \A p \in Written(adj.jac, call.jac) :
                   \E o \in 0..(Len(call.obs) - 1), k \in 1..Len(adj.wlog) :
                       /\ adj.wlog[k].col < tp_size
                       /\ p - 1 = o * tp_size + adj.wlog[k].col
    /\ orch.pc # "idle" =>
          /\ Len(orch.jac) = Len(bin.jac)
          /\ \A p \in Written(orch.jac, bin.jac) :
                p - 1 < Len(bin.obs) * Len(bin.trainableParams)

C30_Witness ==
    /\ orch.pc = "returned"
    /\ Len(bin.obs) = MaxObs
    /\ bin.num_gpus = MaxDevices
    /\ orch.merged = MaxDevices
    /\ Cardinality(Written(orch.jac, bin.jac)) > MaxObs

----------------------------------------------------------------------------
(* Claims about the gate cache (checked under SpecCache).                  *)

\* What a cache stores under a key: the host vector and the device buffer
\* a lookup of the key finds, each absent when find returns end().
Stored(c, k) ==
    [host |-> IF find(c.host_gates_, k) # 0
              THEN <<at(c.host_gates_, k)>> ELSE <<>>,
     device |-> IF find(c.device_gates_, k) # 0
                THEN <<at(c.device_gates_, k)>> ELSE <<>>]

\* The step is a call of add_gate.
AddGateStep == gc'.ncalls = gc.ncalls + 1 /\ gc'.last.op = "add_gate"

\* After add_gate(k, data): gateExists(k), get_gate_host(k) returns data,
\* and what is stored under every other key is what it was.
AddGateStores ==
    LET k == gc'.last.key
        d == gc'.last.data
    IN /\ gateExists(gc'.cache, k)
       /\ gateExistsByName(gc'.cache, k.name, k.param)
       /\ get_gate_host(gc'.cache, k).ret = d
       /\ \A k2 \in (GateKeys \cup DefaultKeys) \ {k} :
            Stored(gc'.cache, k2) = Stored(gc.cache, k2)

C33_LookupsCreateNothing ==
    gc.pc = "constructed" =>
        /\ \A k \in GateKeys \cup DefaultKeys :
             gateExists(gc.cache, k) <=> k \in gc.inserted
        /\ KeysOf(gc.cache.host_gates_) = KeysOf(gc.cache.device_gates_)

----------------------------------------------------------------------------
(* Claims about the devices of a sweep (checked under SpecDevices).        *)

\* C32: during a sweep on device d every state copy is created on d (the
\* ket, the scratch bra, the per-observable bras, the accumulator and the
\* per-term temporaries of HamiltonianGPU::applyInPlace), the same-device
\* check of updateJacobian never fails, and no scaled-add or update
\* combines state copies of different devices.
C32_AllCopiesOnSweepDevice ==
    /\ devs.err = "none"
    /\ \A j \in 1..Len(devs.log) :
         devs.log[j].a = devs.d /\ devs.log[j].b = devs.d

----------------------------------------------------------------------------
(* Claims about the coverage of the Jacobian (checked under Spec).         *)

\* The tape of the call holds no state-preparation operation.
NoStatePrepOnTape ==
    \A k \in 1..Len(call.ops) :
        call.ops[k].name \notin {"QubitStateVector", "BasisState"}

\* The updateJacobian fan-outs of the call that wrote column col.
WritesOfColumn(col) == {k \in 1..Len(adj.wlog) : adj.wlog[k].col = col}

\* C34: when adjointJacobian returns without error for a tape without
\* state-preparation operations (trainable indices ascending, distinct and
\* below the number of parametric operations), every entry
\* Jacobian[i, col] with i < num_observables and col < tp_size was written
\* exactly once: one fan-out per column, and no entry keeps the caller's
\* prior content.
C34_EveryEntryWrittenOnce ==
    (adj.pc = "done" /\ adj.err = "none" /\ NoStatePrepOnTape) =>
        LET tp_size == Len(call.trainableParams)
        IN /\ Len(adj.wlog) = tp_size
           /\ \A col \in 0..(tp_size - 1) :
                /\ Cardinality(WritesOfColumn(col)) = 1
                /\ \A i \in 0..(Len(call.obs) - 1) :
                     /\ i * tp_size + col + 1 <= Len(adj.jac)
                     /\ adj.jac[i * tp_size + col + 1] # Prior

\* A finished call with MaxObs observables and two trainable parameters on
\* a tape that also holds an operation without parameters.
C34_Witness ==
    /\ adj.pc = "done"
    /\ adj.err = "none"
    /\ NoStatePrepOnTape
    /\ Len(call.obs) = MaxObs
    /\ Len(call.trainableParams) = 2
    /\ \E k \in 1..Len(call.ops) : call.ops[k].params = 0
    /\ \A p \in 1..Len(adj.jac) : adj.jac[p] # Prior

====
